---- MODULE Spec2Model ----
(***************************************************************************)
(* Music project manager plugin (src/music_project_manager.go): template   *)
(* instantiation, background scan, registry sidecar (projects.json) and    *)
(* rename, modelled over an explicit file system.                          *)
(*                                                                         *)
(* Text is a sequence of one-character strings; a path is a sequence of    *)
(* components, each component a text.  The file system is case-sensitive.  *)
(***************************************************************************)
EXTENDS Integers, Sequences, FiniteSets, TLC

VARIABLES
    settings,   \* the settings in force: [ProjectDir, TemplateDir, DefaultTemplate], paths (<<>> = "")
    dirs,       \* directories that exist (set of paths)
    files,      \* regular files that exist: path -> [kind, bytes, projects, mtime]
    clock,      \* source of modification times
    scans,      \* the background goroutines started by scanProjects
    acked,      \* names create_project acknowledged after a successful append
    last,       \* what the operation that ran last did and returned
    io,         \* the kinds of I/O the operation that ran last performed
    launched,   \* the commands the operation that ran last handed to exec.Command
    shown       \* the entries that the reply of the operation that ran last lists

vars == <<settings, dirs, files, clock, scans, acked, last, io, launched, shown>>

(* strings *)

Upper == <<"A", "B", "C", "E", "M", "O", "P", "R", "T", "N">>
Lower == <<"a", "b", "c", "e", "m", "o", "p", "r", "t", "n">>

\* unicode.ToLower on one character
ToLowerChar(c) ==
    IF \E i \in 1..Len(Upper) : Upper[i] = c
    THEN Lower[CHOOSE i \in 1..Len(Upper) : Upper[i] = c]
    ELSE c

\* strings.ToLower
ToLower(s) == [i \in 1..Len(s) |-> ToLowerChar(s[i])]

\* strings.EqualFold
EqualFold(s, t) == ToLower(s) = ToLower(t)

\* strings.HasPrefix
HasPrefix(s, p) == Len(p) <= Len(s) /\ SubSeq(s, 1, Len(p)) = p

\* strings.HasSuffix
HasSuffix(s, p) == Len(p) <= Len(s) /\ SubSeq(s, Len(s) - Len(p) + 1, Len(s)) = p

\* strings.Contains
Contains(s, sub) ==
    \E i \in 1..(Len(s) + 1) :
        i + Len(sub) - 1 <= Len(s) /\ SubSeq(s, i, i + Len(sub) - 1) = sub

\* strings.ContainsAny
ContainsAny(s, chars) == \E i \in 1..Len(s) : s[i] \in chars

\* strings.TrimLeft
RECURSIVE TrimLeft(_, _)
TrimLeft(s, cutset) ==
    IF s # <<>> /\ s[1] \in cutset THEN TrimLeft(Tail(s), cutset) ELSE s

\* strings.TrimSuffix
TrimSuffix(s, suffix) ==
    IF HasSuffix(s, suffix) THEN SubSeq(s, 1, Len(s) - Len(suffix)) ELSE s

\* strings.Split(s, sep) for a one-character separator: the pieces of the two
\* halves of s, the last piece of the first half running into the first
\* piece of the second
RECURSIVE Split(_, _)
Split(s, sep) ==
    IF Len(s) <= 1 THEN (IF s = <<sep>> THEN <<(<<>>), (<<>>)>> ELSE <<s>>)
    ELSE LET h == Len(s) \div 2
             l == Split(SubSeq(s, 1, h), sep)
             r == Split(SubSeq(s, h + 1, Len(s)), sep)
         IN  SubSeq(l, 1, Len(l) - 1) \o <<l[Len(l)] \o r[1]>> \o Tail(r)

\* strings.Join
RECURSIVE Join(_, _)
Join(parts, sep) ==
    IF parts = <<>> THEN <<>>
    ELSE IF Len(parts) = 1 THEN parts[1]
    ELSE LET h == Len(parts) \div 2
         IN  Join(SubSeq(parts, 1, h), sep) \o sep \o Join(SubSeq(parts, h + 1, Len(parts)), sep)

\* unicode.IsSpace, on the characters used here
Space == {" ", "\t", "\r", "\n"}

\* strings.Fields
RECURSIVE Fields(_)
Fields(s) ==
    LET t == TrimLeft(s, Space)
    IN  IF t = <<>> THEN <<>>
        ELSE LET n == IF \E i \in 1..Len(t) : t[i] \in Space
                      THEN (CHOOSE k \in 1..Len(t) :
                               t[k] \in Space /\ \A j \in 1..(k - 1) : t[j] \notin Space) - 1
                      ELSE Len(t)
             IN  <<SubSeq(t, 1, n)>> \o Fields(SubSeq(t, n + 1, Len(t)))

Digits == <<"0", "1", "2", "3", "4", "5", "6", "7", "8", "9">>

IsDigit(c) == \E d \in 1..10 : Digits[d] = c

DigitVal(c) == (CHOOSE d \in 1..10 : Digits[d] = c) - 1

\* strconv.Itoa
RECURSIVE Itoa(_)
Itoa(n) ==
    IF n < 0 THEN <<"-">> \o Itoa(0 - n)
    ELSE IF n < 10 THEN <<Digits[n + 1]>>
    ELSE Itoa(n \div 10) \o <<Digits[(n % 10) + 1]>>

RECURSIVE DecVal(_)
DecVal(s) == IF s = <<>> THEN 0 ELSE DecVal(SubSeq(s, 1, Len(s) - 1)) * 10 + DigitVal(s[Len(s)])

\* a float64 is kept in tenths; NaN is a value of its own
Float(t) == [nan |-> FALSE, tenths |-> t]
NaN == [nan |-> TRUE, tenths |-> 0]

\* strconv.ParseFloat(s, 64), on decimal numerals with at most one
\* fractional digit and on "NaN"; everything else used here is a syntax error
ParseFloat(s) ==
    LET dot  == IF \E i \in 1..Len(s) : s[i] = "."
                THEN CHOOSE k \in 1..Len(s) : s[k] = "." /\ \A j \in 1..(k - 1) : s[j] # "."
                ELSE Len(s) + 1
        ip   == SubSeq(s, 1, dot - 1)
        fp   == SubSeq(s, dot + 1, Len(s))
        num  == /\ Len(ip) + Len(fp) > 0
                /\ \A i \in 1..Len(ip) : IsDigit(ip[i])
                /\ \A i \in 1..Len(fp) : IsDigit(fp[i])
                /\ Len(fp) <= 1
    IN  IF num
        THEN [err |-> FALSE,
              val |-> Float(DecVal(ip) * 10 + (IF fp = <<>> THEN 0 ELSE DigitVal(fp[1])))]
        ELSE IF ToLower(s) = <<"n", "a", "n">>
        THEN [err |-> FALSE, val |-> NaN]
        ELSE [err |-> TRUE, val |-> Float(0)]

(* paths *)

\* filepath.Join(dir, name) for a one-component name
JoinPath(dir, name) == Append(dir, name)

\* filepath.Dir
Dir(path) == IF path = <<>> THEN <<>> ELSE SubSeq(path, 1, Len(path) - 1)

\* filepath.Base
Base(path) == IF path = <<>> THEN <<>> ELSE path[Len(path)]

\* filepath.Ext
Ext(path) ==
    LET b == Base(path)
    IN  IF \E i \in 1..Len(b) : b[i] = "."
        THEN LET k == CHOOSE i \in 1..Len(b) :
                          b[i] = "." /\ \A j \in (i + 1)..Len(b) : b[j] # "."
             IN  SubSeq(b, k, Len(b))
        ELSE <<>>

IsPrefix(p, q) == Len(p) <= Len(q) /\ SubSeq(q, 1, Len(p)) = p


\* the characters used here, in byte order
Ascii == <<"\t", "\n", "\r", " ", "\"", "*", "-", ".", "/",
           "0", "1", "2", "3", "4", "5", "6", "7", "8", "9", ":", "<", ">", "?",
           "A", "B", "C", "D", "E", "M", "N", "O", "P", "R", "T", "\\",
           "a", "b", "c", "d", "e", "f", "j", "l", "m", "n", "o", "p",
           "r", "s", "t", "u", "x", "y", "z", "|", "~">>

Code(c) == CHOOSE i \in 1..Len(Ascii) : Ascii[i] = c

\* s < t on Go strings (bytewise)
RECURSIVE LessText(_, _)
LessText(s, t) ==
    IF t = <<>> THEN FALSE
    ELSE IF s = <<>> THEN TRUE
    ELSE IF s[1] = t[1] THEN LessText(Tail(s), Tail(t))
    ELSE Code(s[1]) < Code(t[1])

\* sort.Strings on a set of names
RECURSIVE SortNames(_)
SortNames(S) ==
    IF S = {} THEN <<>>
    ELSE LET m == CHOOSE x \in S : \A y \in S \ {x} : LessText(x, y)
         IN  <<m>> \o SortNames(S \ {m})

(* project files *)

TempoPrefix == <<"T", "E", "M", "P", "O", " ">>

\* maxLines in extractBPMFromRPP
MaxLines == 100

\* bufio.ScanLines over the whole input: the lines without their terminator,
\* a trailing "\r" dropped, no empty line after a final "\n"
ScanLines(content) ==
    LET raw  == Split(content, "\n")
        cut  == IF raw[Len(raw)] = <<>> THEN SubSeq(raw, 1, Len(raw) - 1) ELSE raw
    IN  [i \in 1..Len(cut) |-> TrimSuffix(cut[i], <<"\r">>)]

\* the scanner loop of extractBPMFromRPP on the lines not yet read: it
\* returns at the first line, while lineCount < maxLines, that starts with
\* "TEMPO " and has two fields
extractLoop(lines, lineCount) ==
    LET left       == IF lineCount < MaxLines THEN MaxLines - lineCount ELSE 0
        n          == IF Len(lines) < left THEN Len(lines) ELSE left
        trimmed(k) == TrimLeft(lines[k], {" ", "\t"})
        returns(k) == HasPrefix(trimmed(k), TempoPrefix) /\ Len(Fields(trimmed(k))) >= 2
    IN  IF \E k \in 1..n : returns(k)
        THEN LET k == CHOOSE i \in 1..n : returns(i) /\ \A j \in 1..(i - 1) : ~returns(j)
             IN  ParseFloat(Fields(trimmed(k))[2])
        ELSE [err |-> FALSE, val |-> Float(0)]

extractBPMFromRPP(content) == extractLoop(ScanLines(content), 0)

\* the loop of updateProjectBPM: the lines after the patch; the loop breaks
\* at the first line that starts with "TEMPO "
patchLines(lines, bpm) ==
    LET trimmed(k) == TrimLeft(lines[k], {" ", "\t"})
        found(k)   == HasPrefix(trimmed(k), TempoPrefix)
    IN  IF ~\E k \in 1..Len(lines) : found(k) THEN lines
        ELSE LET i      == CHOOSE k \in 1..Len(lines) : found(k) /\ \A j \in 1..(k - 1) : ~found(j)
                 line   == lines[i]
                 indent == SubSeq(line, 1, Len(line) - Len(trimmed(i)))
                 parts  == Fields(trimmed(i))
             IN  IF Len(parts) >= 2
                 THEN [lines EXCEPT ![i] = indent \o Join([parts EXCEPT ![2] = Itoa(bpm)], <<" ">>)]
                 ELSE lines

\* a loop without the break: every TEMPO line is patched
RECURSIVE patchEveryLine(_, _)
patchEveryLine(lines, bpm) ==
    IF lines = <<>> THEN <<>>
    ELSE patchLines(<<lines[1]>>, bpm) \o patchEveryLine(Tail(lines), bpm)

updateProjectBPM_EveryLine(content, bpm) ==
    Join(patchEveryLine(Split(content, "\n"), bpm), <<"\n">>)

\* updateProjectBPM whose loop never recognises the TEMPO line
updateProjectBPM_NoMatch(content, bpm) ==
    Join(Split(content, "\n"), <<"\n">>)

\* updateProjectBPM on the bytes read: the bytes written back
updateProjectBPM(content, bpm) ==
    Join(patchLines(Split(content, "\n"), bpm), <<"\n">>)

(* the file system *)

Home == <<"h">>
ProjectsName == <<"P">>
TemplatesName == <<"T">>
HomePath == <<Home>>
ProjectRoot == <<Home, ProjectsName>>
TemplateRoot == <<Home, TemplatesName>>

DotRPP == <<".", "R", "P", "P">>
DotRppLower == <<".", "r", "p", "p">>
DefaultRPP == <<"d", "e", "f", "a", "u", "l", "t", ".", "R", "P", "P">>
ProjectsJSON == <<"p", "r", "o", "j", "e", "c", "t", "s", ".", "j", "s", "o", "n">>

\* a regular file holding text
TextFile(bytes, mtime) == [kind |-> "text", bytes |-> bytes, projects |-> <<>>, mtime |-> mtime]

\* a regular file holding the JSON encoding of a []Project
JSONFile(projects) == [kind |-> "json", bytes |-> <<>>, projects |-> projects, mtime |-> 0]

\* the state of the file system
FS(d, f) == [dirs |-> d, files |-> f]

IsDir(fs, p) == p \in fs.dirs
IsFile(fs, p) == p \in DOMAIN fs.files

\* os.Stat(p) returns no error
Exists(fs, p) == IsDir(fs, p) \/ IsFile(fs, p)

\* the names in directory p (os.ReadDir)
Children(fs, p) == {Base(q) : q \in {r \in fs.dirs \cup DOMAIN fs.files : r # <<>> /\ Dir(r) = p}}

Put(f, p, rec) == [q \in DOMAIN f \cup {p} |-> IF q = p THEN rec ELSE f[q]]

\* os.MkdirAll
MkdirAll(fs, p, fault) ==
    IF fault \/ \E k \in 1..Len(p) : IsFile(fs, SubSeq(p, 1, k))
    THEN [err |-> TRUE, fs |-> fs]
    ELSE [err |-> FALSE,
          fs  |-> FS(fs.dirs \cup {SubSeq(p, 1, k) : k \in 1..Len(p)}, fs.files)]

\* os.WriteFile
WriteFile(fs, p, rec, fault) ==
    IF fault \/ ~IsDir(fs, Dir(p)) \/ IsDir(fs, p)
    THEN [err |-> TRUE, fs |-> fs]
    ELSE [err |-> FALSE, fs |-> FS(fs.dirs, Put(fs.files, p, rec))]

\* where path q lies after old has become new
Moved(q, old, new) == IF IsPrefix(old, q) THEN new \o SubSeq(q, Len(old) + 1, Len(q)) ELSE q

\* os.Rename
Rename(fs, old, new, fault) ==
    LET gone   == {q \in fs.dirs \cup DOMAIN fs.files : IsPrefix(new, q)}
        refuse == \/ fault
                  \/ ~Exists(fs, old)
                  \/ ~IsDir(fs, Dir(new))
                  \/ (old # new /\ IsPrefix(old, new))
                  \/ (IsDir(fs, old) /\ IsFile(fs, new))
                  \/ (IsDir(fs, old) /\ IsDir(fs, new) /\ gone # {new})
                  \/ (IsFile(fs, old) /\ IsDir(fs, new))
        keptD  == fs.dirs \ gone
        keptF  == DOMAIN fs.files \ gone
    IN  IF refuse THEN [err |-> TRUE, fs |-> fs]
        ELSE IF old = new THEN [err |-> FALSE, fs |-> fs]
        ELSE [err |-> FALSE,
              fs  |-> FS({Moved(q, old, new) : q \in keptD},
                         [q \in {Moved(r, old, new) : r \in keptF} |->
                             fs.files[CHOOSE r \in keptF : Moved(r, old, new) = q]])]

(* the registry sidecar *)

Project(name, path, mtime, size, bpm) ==
    [Name |-> name, Path |-> path, LastModified |-> mtime, Size |-> size, BPM |-> bpm]

\* os.ReadFile followed by json.Unmarshal into []Project
ReadProjects(fs, p) ==
    IF ~IsFile(fs, p) THEN [readErr |-> TRUE, parseErr |-> FALSE, projects |-> <<>>]
    ELSE IF fs.files[p].kind # "json" THEN [readErr |-> FALSE, parseErr |-> TRUE, projects |-> <<>>]
    ELSE [readErr |-> FALSE, parseErr |-> FALSE, projects |-> fs.files[p].projects]

\* json.MarshalIndent never fails
MarshalFails_Never(projects) == FALSE

\* json.MarshalIndent returns an error: a float that JSON cannot encode
MarshalFails(projects) == \E i \in 1..Len(projects) : projects[i].BPM.nan

\* os.Stat(p): ModTime and Size of a path that exists; what a directory
\* reports depends on the platform and is kept at 0
ModTime(fs, p) == IF IsFile(fs, p) THEN fs.files[p].mtime ELSE 0
Size(fs, p) == IF IsFile(fs, p) THEN Len(fs.files[p].bytes) ELSE 0

\* extractBPMFromRPP(path), with the caller's "use 0 if extraction fails"
BPMOf(fs, p) ==
    IF ~IsFile(fs, p) \/ fs.files[p].kind # "text" THEN Float(0)
    ELSE LET r == extractBPMFromRPP(fs.files[p].bytes)
         IN  IF r.err THEN Float(0) ELSE r.val

(* create_project *)

Forbidden == {"<", ">", ":", "\"", "/", "\\", "|", "?", "*"}

MinBPM == 30
MaxBPM == 300

\* validation without the range check on bpm
validateCreateProject_NoRange(name, bpm) ==
    IF name = <<>> THEN "name required"
    ELSE IF ContainsAny(name, Forbidden) THEN "invalid characters"
    ELSE "nil"

\* validateCreateProject: "nil" or the error
validateCreateProject(name, bpm) ==
    IF name = <<>> THEN "name required"
    ELSE IF ContainsAny(name, Forbidden) THEN "invalid characters"
    ELSE IF bpm # 0 /\ (bpm < MinBPM \/ bpm > MaxBPM) THEN "bpm out of range"
    ELSE "nil"

\* appendProjectToJSON
appendProjectToJSON(fs, projectPath, projectName, projectDirBase, faults) ==
    LET projectsFile == JoinPath(projectDirBase, ProjectsJSON)
        newProject   == Project(projectName, projectPath, ModTime(fs, projectPath),
                                Size(fs, projectPath), BPMOf(fs, projectPath))
        rd           == ReadProjects(fs, projectsFile)
        projects     == Append(rd.projects, newProject)
    IN  IF ~Exists(fs, projectPath) THEN [err |-> TRUE, fs |-> fs]
        ELSE IF ~rd.readErr /\ rd.parseErr THEN [err |-> TRUE, fs |-> fs]
        ELSE IF MarshalFails(projects) THEN [err |-> TRUE, fs |-> fs]
        ELSE WriteFile(fs, projectsFile, JSONFile(projects), "sidecar" \in faults)

\* exec.Command(name, args...)
Command(name, args) == [name |-> name, args |-> args]

\* the command launchReaper runs
launchReaper(projectPath) == Command("open", <<"-a", "Reaper", projectPath>>)

\* the launcher's exit status is not looked at
launchFailed_Never(faults) == FALSE

\* cmd.Run() returns an error: the launcher could not start or exited nonzero
launchFailed(faults) == "launch" \in faults

CreateResult(out, why, fs, wrote, appended, did, cmds) ==
    [out |-> out, why |-> why, fs |-> fs, wrote |-> wrote, appended |-> appended,
     io |-> did, launched |-> cmds]

\* only project_dir is looked at
createNotConfigured_ProjectOnly(st) == st.ProjectDir = <<>>

\* settings.ProjectDir == "" || settings.TemplateDir == ""
createNotConfigured(st) == st.ProjectDir = <<>> \/ st.TemplateDir = <<>>

\* createProject: what it returns and the file system it leaves
createProject(fs, st, name, bpm, faults, now) ==
    LET projectDirBase  == st.ProjectDir
        defaultTemplate == JoinPath(st.TemplateDir, DefaultRPP)
        projectDir      == JoinPath(projectDirBase, name)
        dest            == JoinPath(projectDir, name \o DotRPP)
        mk              == MkdirAll(fs, projectDir, "mkdir" \in faults)
        data            == mk.fs.files[defaultTemplate].bytes
        wr              == WriteFile(mk.fs, dest, TextFile(data, now), "write" \in faults)
        up              == IF bpm > 0
                           THEN WriteFile(wr.fs, dest,
                                          TextFile(updateProjectBPM(wr.fs.files[dest].bytes, bpm), now),
                                          "patch" \in faults)
                           ELSE [err |-> FALSE, fs |-> wr.fs]
        ap              == appendProjectToJSON(up.fs, dest, name, projectDirBase, faults)
        cmd             == <<launchReaper(dest)>>
        patched         == IF bpm > 0 THEN {"read"} ELSE {}
    IN  IF validateCreateProject(name, bpm) # "nil"
        THEN CreateResult("error", validateCreateProject(name, bpm), fs, FALSE, FALSE, {}, <<>>)
        ELSE IF createNotConfigured(st)
        THEN CreateResult("guidance", "not configured", fs, FALSE, FALSE, {"settings"}, <<>>)
        ELSE IF mk.err
        THEN CreateResult("error", "mkdir", fs, FALSE, FALSE, {"settings", "mkdir"}, <<>>)
        ELSE IF ~IsFile(mk.fs, defaultTemplate)
        THEN CreateResult("error", "template not found", mk.fs, FALSE, FALSE,
                          {"settings", "mkdir", "read"}, <<>>)
        ELSE IF wr.err
        THEN CreateResult("error", "write", mk.fs, FALSE, FALSE,
                          {"settings", "mkdir", "read", "write"}, <<>>)
        ELSE IF up.err
        THEN CreateResult("error", "update bpm", wr.fs, TRUE, FALSE,
                          {"settings", "mkdir", "read", "write"}, <<>>)
        ELSE IF launchFailed(faults)
        THEN CreateResult("error", "launch", up.fs, TRUE, FALSE,
                          {"settings", "mkdir", "read", "write", "exec"}, cmd)
        ELSE CreateResult("ok", IF ap.err THEN "created, projects.json not updated" ELSE "created",
                          ap.fs, TRUE, ~ap.err,
                          {"settings", "mkdir", "read", "write", "exec", "stat"}, cmd)

Returned(op, out, why, name, new, bpm) ==
    [op |-> op, out |-> out, why |-> why, name |-> name, new |-> new, bpm |-> bpm]

(* open_project *)

\* every extension is let through
notRPP_Never(projectPath) == FALSE

\* strings.ToLower(filepath.Ext(projectPath)) != ".rpp"
notRPP(projectPath) == ToLower(Ext(projectPath)) # DotRppLower

\* what a read-only operation returns, and the file system it leaves
OpenResult(out, why, did, cmds, fs) ==
    [out |-> out, why |-> why, io |-> did, launched |-> cmds, fs |-> fs]

\* openProject
openProject(fs, projectPath, faults) ==
    IF projectPath = <<>> THEN OpenResult("error", "path required", {}, <<>>, fs)
    ELSE IF ~Exists(fs, projectPath) THEN OpenResult("error", "file not found", {"stat"}, <<>>, fs)
    ELSE IF notRPP(projectPath) THEN OpenResult("error", "not an RPP file", {"stat"}, <<>>, fs)
    ELSE IF launchFailed(faults)
    THEN OpenResult("error", "launch", {"stat", "exec"}, <<launchReaper(projectPath)>>, fs)
    ELSE OpenResult("ok", "opened", {"stat", "exec"}, <<launchReaper(projectPath)>>, fs)

(* scan *)

IdleTask == [pc |-> "idle", root |-> <<>>, todo |-> <<>>, projects |-> <<>>]

\* the walk function passed to filepath.Walk, on a path that lstat found
walkFn(fs, path, projects) ==
    IF ToLower(Ext(path)) = DotRppLower
    THEN Append(projects,
                Project(TrimSuffix(Base(path), Ext(path)), path,
                        ModTime(fs, path), Size(fs, path), BPMOf(fs, path)))
    ELSE projects

\* one step of filepath.Walk: lstat the next path, read its names if it is a
\* directory, call walkFn; pc "failed" when lstat fails and walkFn returns the error
walkStep(fs, t) ==
    LET path  == Head(t.todo)
        names == SortNames(Children(fs, path))
        rest  == IF IsDir(fs, path)
                 THEN [k \in 1..Len(names) |-> JoinPath(path, names[k])] \o Tail(t.todo)
                 ELSE Tail(t.todo)
    IN  IF ~Exists(fs, path)
        THEN [pc |-> "failed", root |-> t.root, todo |-> <<>>, projects |-> <<>>]
        ELSE [pc |-> IF rest = <<>> THEN "write" ELSE "walk",
              root |-> t.root, todo |-> rest, projects |-> walkFn(fs, path, t.projects)]

StartTask(projectDir) ==
    [pc |-> "walk", root |-> projectDir, todo |-> <<projectDir>>, projects |-> <<>>]

\* filepath.Walk run to its end on a file system nobody else touches
RECURSIVE Walk(_, _)
Walk(fs, t) == IF t.pc = "walk" THEN Walk(fs, walkStep(fs, t)) ELSE t

\* the goroutine writes an empty list
scanOutput_Empty(task) == JSONFile(<<>>)

\* what the goroutine of scanProjects writes to projects.json
scanOutput(task) == JSONFile(task.projects)

(* rename_project *)

\* the loop that finds the project to rename: its index, 0 when none
findProject(projects, oldName) ==
    LET hit(i) == \/ EqualFold(projects[i].Name, oldName)
                  \/ Contains(ToLower(projects[i].Name), ToLower(oldName))
    IN  IF \E i \in 1..Len(projects) : hit(i)
        THEN CHOOSE i \in 1..Len(projects) : hit(i) /\ \A j \in 1..(i - 1) : ~hit(j)
        ELSE 0

\* the target folder is never found
targetFolderExists_Never(fs, newFolderPath) == FALSE

\* the os.Stat check on the target folder
targetFolderExists(fs, newFolderPath) == Exists(fs, newFolderPath)

\* step 3 that forgets the entry's path
updateEntry_NameOnly(fs, projects, projectIndex, newName, newRPPPath) ==
    [projects EXCEPT ![projectIndex] = [projects[projectIndex] EXCEPT !.Name = newName]]

\* step 3: the matched entry gets the new name and path, and the file's
\* modification time and size when os.Stat finds it
updateEntry(fs, projects, projectIndex, newName, newRPPPath) ==
    LET renamed == [projects[projectIndex] EXCEPT !.Name = newName, !.Path = newRPPPath]
    IN  [projects EXCEPT ![projectIndex] =
            IF Exists(fs, newRPPPath)
            THEN [renamed EXCEPT !.LastModified = ModTime(fs, newRPPPath),
                                 !.Size = Size(fs, newRPPPath)]
            ELSE renamed]

\* no rollback
rollbackFolder_None(fs, newFolderPath, oldFolderPath, fault) == fs

\* the rollback of the folder rename; its error is not looked at
rollbackFolder(fs, newFolderPath, oldFolderPath, fault) ==
    Rename(fs, newFolderPath, oldFolderPath, fault).fs

\* every new name is let through
invalidNewName_Never(newName) == FALSE

\* the check of new_name against the forbidden characters
invalidNewName(newName) == ContainsAny(newName, Forbidden)

RenameResult(out, why, fs, index, did) ==
    [out |-> out, why |-> why, fs |-> fs, index |-> index, io |-> did]

\* renameProject: what it returns and the file system it leaves
renameProject(fs, st, oldName, newName, faults) ==
    LET projectDir     == st.ProjectDir
        projectsFile   == JoinPath(projectDir, ProjectsJSON)
        rd             == ReadProjects(fs, projectsFile)
        projects       == rd.projects
        projectIndex   == findProject(projects, oldName)
        oldProjectPath == projects[projectIndex].Path
        oldFolderPath  == Dir(oldProjectPath)
        oldRPPName     == Base(oldProjectPath)
        newFolderPath  == JoinPath(Dir(oldFolderPath), newName)
        newRPPPath     == JoinPath(newFolderPath, newName \o DotRPP)
        step1          == Rename(fs, oldFolderPath, newFolderPath, "rename1" \in faults)
        tempOldRPPPath == JoinPath(newFolderPath, oldRPPName)
        step2          == Rename(step1.fs, tempOldRPPPath, newRPPPath, "rename2" \in faults)
        newProjects    == updateEntry(step2.fs, projects, projectIndex, newName, newRPPPath)
        wr             == WriteFile(step2.fs, projectsFile, JSONFile(newProjects),
                                    "sidecar" \in faults)
    IN  IF oldName = <<>> THEN RenameResult("error", "old name required", fs, 0, {})
        ELSE IF newName = <<>> THEN RenameResult("error", "new name required", fs, 0, {})
        ELSE IF invalidNewName(newName)
        THEN RenameResult("error", "invalid characters", fs, 0, {})
        ELSE IF st.ProjectDir = <<>> THEN RenameResult("guidance", "not configured", fs, 0, {"settings"})
        ELSE IF rd.readErr THEN RenameResult("error", "projects.json not found", fs, 0, {"settings", "read"})
        ELSE IF rd.parseErr THEN RenameResult("error", "parse", fs, 0, {"settings", "read"})
        ELSE IF projectIndex = 0 THEN RenameResult("error", "not found", fs, 0, {"settings", "read"})
        ELSE IF targetFolderExists(fs, newFolderPath)
        THEN RenameResult("error", "already exists", fs, projectIndex, {"settings", "read", "stat"})
        ELSE IF step1.err THEN RenameResult("error", "rename folder", fs, projectIndex, {"settings", "read", "stat", "rename"})
        ELSE IF step2.err
        THEN RenameResult("error", "rename file",
                          rollbackFolder(step1.fs, newFolderPath, oldFolderPath,
                                         "rollback" \in faults),
                          projectIndex, {"settings", "read", "stat", "rename"})
        ELSE IF MarshalFails(newProjects)
        THEN RenameResult("error", "marshal", step2.fs, projectIndex, {"settings", "read", "stat", "rename"})
        ELSE IF wr.err THEN RenameResult("error", "write", step2.fs, projectIndex, {"settings", "read", "stat", "rename", "write"})
        ELSE RenameResult("ok", "renamed", wr.fs, projectIndex, {"settings", "read", "stat", "rename", "write"})

(* list_projects and filter_project *)

Limit == 30

\* where sort.Slice with less = "modified after" puts one more entry; entries
\* with equal times keep their order, as Go's insertion sort leaves them
insertByTime(sorted, p) ==
    LET k == Cardinality({i \in 1..Len(sorted) : sorted[i].LastModified >= p.LastModified})
    IN  SubSeq(sorted, 1, k) \o <<p>> \o SubSeq(sorted, k + 1, Len(sorted))

\* sort.Slice(projects, LastModified descending)
RECURSIVE sortByLastModified(_)
sortByLastModified(projects) ==
    IF projects = <<>> THEN <<>>
    ELSE insertByTime(sortByLastModified(SubSeq(projects, 1, Len(projects) - 1)),
                      projects[Len(projects)])

\* no cap
firstLimit_All(projects) == projects

\* projects[:limit]
firstLimit(projects) ==
    SubSeq(projects, 1, IF Len(projects) < Limit THEN Len(projects) ELSE Limit)

\* what a query returns: the entries the table rows are built from (each row
\* carries the entry's Name, Path, BPM and the day of LastModified)
QueryResult(out, why, recent, did, fs) ==
    [out |-> out, why |-> why, recent |-> recent, io |-> did, fs |-> fs]

\* the file is never reported missing
sidecarMissing_Never(fs, projectsFile) == FALSE

\* os.Stat(projectsFile) reports that the file does not exist
sidecarMissing(fs, projectsFile) == ~Exists(fs, projectsFile)

\* a listProjects that saves what it shows: the sorted, truncated list
\* replaces the sidecar
listProjects_WritesBack(fs, st) ==
    LET projectsFile == JoinPath(st.ProjectDir, ProjectsJSON)
        recent       == firstLimit(sortByLastModified(ReadProjects(fs, projectsFile).projects))
    IN  QueryResult("ok", "table", recent, {"settings", "stat", "read", "write"},
                    WriteFile(fs, projectsFile, JSONFile(recent), FALSE).fs)

\* listProjects
listProjects(fs, st) ==
    LET projectsFile == JoinPath(st.ProjectDir, ProjectsJSON)
        rd           == ReadProjects(fs, projectsFile)
    IN  IF st.ProjectDir = <<>> THEN QueryResult("guidance", "not configured", <<>>, {"settings"}, fs)
        ELSE IF sidecarMissing(fs, projectsFile)
        THEN QueryResult("ok", "run scan first", <<>>, {"settings", "stat"}, fs)
        ELSE IF rd.readErr THEN QueryResult("error", "read", <<>>, {"settings", "stat", "read"}, fs)
        ELSE IF rd.parseErr THEN QueryResult("error", "parse", <<>>, {"settings", "stat", "read"}, fs)
        ELSE IF Len(rd.projects) = 0
        THEN QueryResult("ok", "no projects", <<>>, {"settings", "stat", "read"}, fs)
        ELSE QueryResult("ok", "table", firstLimit(sortByLastModified(rd.projects)),
                         {"settings", "stat", "read"}, fs)

\* a conversion that rounds to the nearest integer
Trunc_Round(f) == (f.tenths + 5) \div 10

\* int(f): the fraction is dropped
Trunc(f) == IF f.tenths >= 0 THEN f.tenths \div 10 ELSE 0 - ((0 - f.tenths) \div 10)

\* a filter that ignores max_bpm
passesFilter_NoMax(proj, nameFilter, exactBPM, minBPM, maxBPM) ==
    /\ ~(nameFilter # <<>> /\ ~Contains(ToLower(proj.Name), ToLower(nameFilter)))
    /\ ~(exactBPM > 0 /\ Trunc(proj.BPM) # exactBPM)
    /\ ~(minBPM > 0 /\ proj.BPM.tenths < minBPM * 10)

\* the loop body of filterProject keeps the entry
passesFilter(proj, nameFilter, exactBPM, minBPM, maxBPM) ==
    /\ ~(nameFilter # <<>> /\ ~Contains(ToLower(proj.Name), ToLower(nameFilter)))
    /\ ~(exactBPM > 0 /\ Trunc(proj.BPM) # exactBPM)
    /\ ~(minBPM > 0 /\ proj.BPM.tenths < minBPM * 10)
    /\ ~(maxBPM > 0 /\ proj.BPM.tenths > maxBPM * 10)

\* an empty selection is not noticed
nothingMatched_Never(filtered) == FALSE

\* len(filtered) == 0
nothingMatched(filtered) == Len(filtered) = 0

\* filterProject
filterProject(fs, st, nameFilter, exactBPM, minBPM, maxBPM) ==
    LET projectsFile == JoinPath(st.ProjectDir, ProjectsJSON)
        rd           == ReadProjects(fs, projectsFile)
        filtered     == SelectSeq(rd.projects,
                                  LAMBDA proj : passesFilter(proj, nameFilter, exactBPM, minBPM, maxBPM))
    IN  IF st.ProjectDir = <<>> THEN QueryResult("guidance", "not configured", <<>>, {"settings"}, fs)
        ELSE IF sidecarMissing(fs, projectsFile)
        THEN QueryResult("ok", "run scan first", <<>>, {"settings", "stat"}, fs)
        ELSE IF rd.readErr THEN QueryResult("error", "read", <<>>, {"settings", "stat", "read"}, fs)
        ELSE IF rd.parseErr THEN QueryResult("error", "parse", <<>>, {"settings", "stat", "read"}, fs)
        ELSE IF Len(rd.projects) = 0
        THEN QueryResult("ok", "no projects", <<>>, {"settings", "stat", "read"}, fs)
        ELSE IF nothingMatched(filtered)
        THEN QueryResult("ok", "no match", <<>>, {"settings", "stat", "read"}, fs)
        ELSE QueryResult("ok", "table", firstLimit(sortByLastModified(filtered)),
                         {"settings", "stat", "read"}, fs)

(* open_in_finder *)

\* every search is taken as unambiguous
ambiguous_Never(matches) == FALSE

\* len(matches) > 1
ambiguous(matches) == Len(matches) > 1

FinderResult(out, why, did, cmds, listed, fs) ==
    [out |-> out, why |-> why, io |-> did, launched |-> cmds, listed |-> listed, fs |-> fs]

\* openInFinder, from the target path on
revealTarget(fs, targetPath, faults, did) ==
    LET cmd == <<Command("open", <<"-R", targetPath>>)>>
    IN  IF ~Exists(fs, targetPath)
        THEN FinderResult("error", "file not found", did \cup {"stat"}, <<>>, <<>>, fs)
        ELSE IF ToLower(Ext(targetPath)) # DotRppLower
        THEN FinderResult("error", "not an RPP file", did \cup {"stat"}, <<>>, <<>>, fs)
        ELSE IF "open" \in faults
        THEN FinderResult("error", "open failed", did \cup {"stat", "exec"}, cmd, <<>>, fs)
        ELSE FinderResult("ok", "opened", did \cup {"stat", "exec"}, cmd, <<>>, fs)

\* openInFinder
openInFinder(fs, st, projectPath, projectName, faults) ==
    LET projectsFile == JoinPath(st.ProjectDir, ProjectsJSON)
        rd           == ReadProjects(fs, projectsFile)
        searchLower  == ToLower(projectName)
        matches      == SelectSeq(rd.projects,
                                  LAMBDA proj : Contains(ToLower(proj.Name), searchLower))
    IN  IF projectPath # <<>> THEN revealTarget(fs, projectPath, faults, {})
        ELSE IF projectName = <<>>
        THEN FinderResult("error", "path or name required", {}, <<>>, <<>>, fs)
        ELSE IF st.ProjectDir = <<>>
        THEN FinderResult("guidance", "not configured", {"settings"}, <<>>, <<>>, fs)
        ELSE IF rd.readErr
        THEN FinderResult("error", "projects.json not found", {"settings", "read"}, <<>>, <<>>, fs)
        ELSE IF rd.parseErr
        THEN FinderResult("error", "parse", {"settings", "read"}, <<>>, <<>>, fs)
        ELSE IF Len(matches) = 0
        THEN FinderResult("error", "no match", {"settings", "read"}, <<>>, <<>>, fs)
        ELSE IF ambiguous(matches)
        THEN FinderResult("error", "multiple", {"settings", "read"}, <<>>, matches, fs)
        ELSE revealTarget(fs, matches[1].Path, faults, {"settings", "read"})

(* bounds and inputs *)

MaxClock == 2
MaxScans == 1
MaxEntries == 31

Nab == <<"a", "b">>
NB == <<"B">>
Nbc == <<"b", "c">>
Nb == <<"b">>
Nc == <<"c">>

Faults(S) == {{}} \cup {{f} : f \in S}

\* the calls made while a scan may be running
Names == {Nab}
BPMs == {140}
CreateFaults == {{}}
OldNames == {Nb}
NewNames == {Nc}
RenameFaults == {{}}
ScanFaults == Faults({"sidecar"})

\* "<R\n  TEMPO 120 4 4\n>\n"
TplPlain == <<"<", "R", "\n", " ", " ">> \o TempoPrefix
                \o <<"1", "2", "0", " ", "4", " ", "4", "\n", ">", "\n">>
\* "<R\n>\n"
TplNoTempo == <<"<", "R", "\n", ">", "\n">>
\* "<R\r\n\tTEMPO 120 4 4\r\n>\r\n"
TplCRLF == <<"<", "R", "\r", "\n", "\t">> \o TempoPrefix
                \o <<"1", "2", "0", " ", "4", " ", "4", "\r", "\n", ">", "\r", "\n">>
\* "TEMPO  120\t4 4 \n"
TplWide == TempoPrefix \o <<" ", "1", "2", "0", "\t", "4", " ", "4", " ", "\n">>
\* "TEMPO 120.5 4 4\nTEMPO 90 4 4"
TplTwo == TempoPrefix \o <<"1", "2", "0", ".", "5", " ", "4", " ", "4", "\n">>
              \o TempoPrefix \o <<"9", "0", " ", "4", " ", "4">>
\* "TEMPO \n>\n"
TplBare == TempoPrefix \o <<"\n", ">", "\n">>

CreateTemplates == {TplPlain, TplNoTempo, TplCRLF, TplWide, TplTwo, TplBare}

\* the Settings struct
Settings(projectDir, templateDir, defaultTemplate) ==
    [ProjectDir |-> projectDir, TemplateDir |-> templateDir, DefaultTemplate |-> defaultTemplate]

\* the tool's getDefaultSettings: "Default.RPP" with a capital D
CapitalDefaultRPP == <<"D", "e", "f", "a", "u", "l", "t", ".", "R", "P", "P">>
getDefaultSettings ==
    Settings(ProjectRoot, TemplateRoot, JoinPath(TemplateRoot, CapitalDefaultRPP))

\* InitializeWithConfig: the settings it installs
initializeWithConfig(projectDir, templateDir, defaultTemplate) ==
    Settings(projectDir, templateDir,
             IF defaultTemplate = <<>> THEN JoinPath(templateDir, DefaultRPP) ELSE defaultTemplate)

\* loadSettingsFromFile: the stored settings, the defaults when there are none
loadSettingsFromFile(stored) == IF stored = <<>> THEN getDefaultSettings ELSE stored[1]

\* expandTilde
Tilde == <<"~">>
expandTilde(path) ==
    IF path # <<>> /\ path[1] = Tilde THEN HomePath \o Tail(path) ELSE path

\* SetTemplateDir, after the directory was made
setTemplateDir(st, expandedPath) ==
    [st EXCEPT !.TemplateDir = expandedPath,
               !.DefaultTemplate = IF st.DefaultTemplate # <<>>
                                   THEN JoinPath(expandedPath, DefaultRPP)
                                   ELSE st.DefaultTemplate]

\* SettingsManager.UpdateSettings, the in-memory part
updateSettings(st, projectDir, templateDir) ==
    LET s1 == IF projectDir # <<>> THEN [st EXCEPT !.ProjectDir = projectDir] ELSE st
    IN  IF templateDir # <<>>
        THEN [s1 EXCEPT !.TemplateDir = templateDir,
                        !.DefaultTemplate = JoinPath(templateDir, DefaultRPP)]
        ELSE s1

Configured == initializeWithConfig(ProjectRoot, TemplateRoot, <<>>)
SettingsChoices ==
    {Configured,
     initializeWithConfig(<<>>, TemplateRoot, <<>>),
     initializeWithConfig(ProjectRoot, <<>>, <<>>)}

InProject(name) == JoinPath(ProjectRoot, name)
SidecarPath == JoinPath(ProjectRoot, ProjectsJSON)
TemplatePath == JoinPath(TemplateRoot, DefaultRPP)

\* what project_dir holds before the first call
BaseDirs == {HomePath, TemplateRoot, ProjectRoot}

\* no project directory yet
LayoutNone == FS({HomePath, TemplateRoot}, <<>>)
\* an empty project directory
LayoutEmpty == FS(BaseDirs, <<>>)
\* P/ab/ab.rpp and P/ab/bc.RPP: two projects in one folder
LayoutShared ==
    FS(BaseDirs \cup {InProject(Nab)},
       (JoinPath(InProject(Nab), Nab \o DotRppLower) :> TextFile(TplPlain, 0))
         @@ (JoinPath(InProject(Nab), Nbc \o DotRPP) :> TextFile(TplNoTempo, 0)))
\* P/ab/ab.RPP and P/b/b.RPP: two projects as create_project lays them out
LayoutTwo ==
    FS(BaseDirs \cup {InProject(Nab), InProject(Nb)},
       (JoinPath(InProject(Nab), Nab \o DotRPP) :> TextFile(TplPlain, 0))
         @@ (JoinPath(InProject(Nb), Nb \o DotRPP) :> TextFile(TplNoTempo, 0)))
\* P/bc.rpp: a project file directly in the project directory
LayoutFlat ==
    FS(BaseDirs, (JoinPath(ProjectRoot, Nbc \o DotRppLower) :> TextFile(TplPlain, 0)))

\* P/b.rpp/b.rpp.RPP: what create_project lays out for the name "b.rpp"
Nbrpp == Nb \o DotRppLower
LayoutDotted ==
    FS(BaseDirs \cup {InProject(Nbrpp)},
       (JoinPath(InProject(Nbrpp), Nbrpp \o DotRPP) :> TextFile(TplPlain, 0)))

\* P/a?.rpp: a project file that some other program saved
Nforeign == <<"a", "?">>
LayoutForeign ==
    FS(BaseDirs, (JoinPath(ProjectRoot, Nforeign \o DotRppLower) :> TextFile(TplNoTempo, 0)))

Layouts == {LayoutEmpty}

(* the state machine *)

Init ==
    /\ settings = Configured
    /\ \E layout \in Layouts :
         /\ dirs = layout.dirs
         /\ files = Put(layout.files, TemplatePath, TextFile(TplPlain, 0))
    /\ clock = 0
    /\ scans = [i \in 1..MaxScans |-> IdleTask]
    /\ acked = {}
    /\ last = Returned("init", "ok", "", <<>>, <<>>, 0)
    /\ io = {}
    /\ launched = <<>>
    /\ shown = <<>>

\* Call with operation "create_project"
CreateProject(name, bpm, faults) ==
    LET r == createProject(FS(dirs, files), settings, name, bpm, faults, clock + 1)
    IN  /\ r.wrote => clock < MaxClock
        /\ dirs' = r.fs.dirs
        /\ files' = r.fs.files
        /\ clock' = IF r.wrote THEN clock + 1 ELSE clock
        /\ acked' = IF r.out = "ok" /\ r.appended
                    THEN acked \cup {JoinPath(JoinPath(settings.ProjectDir, name), name \o DotRPP)}
                    ELSE acked
        /\ last' = Returned("create_project", r.out, r.why, name, <<>>, bpm)
        /\ io' = r.io
        /\ launched' = r.launched
        /\ shown' = <<>>
        /\ UNCHANGED <<settings, scans>>

\* Call with operation "scan": scanProjects up to the go statement
ScanProjects ==
    LET fs == FS(dirs, files)
        projectDir == settings.ProjectDir
        idle == {i \in 1..MaxScans : scans[i].pc = "idle"}
    IN  IF projectDir = <<>>
        THEN /\ last' = Returned("scan", "guidance", "not configured", <<>>, <<>>, 0)
             /\ io' = {"settings"}
             /\ launched' = <<>>
             /\ shown' = <<>>
             /\ UNCHANGED <<settings, dirs, files, clock, scans, acked>>
        ELSE IF ~Exists(fs, projectDir)
        THEN /\ last' = Returned("scan", "ok", "no directory", <<>>, <<>>, 0)
             /\ io' = {"settings", "stat"}
             /\ launched' = <<>>
             /\ shown' = <<>>
             /\ UNCHANGED <<settings, dirs, files, clock, scans, acked>>
        ELSE /\ idle # {}
             /\ LET i == CHOOSE k \in idle : \A j \in idle : k <= j
                IN  scans' = [scans EXCEPT ![i] = StartTask(projectDir)]
             /\ last' = Returned("scan", "ok", "scanning", <<>>, <<>>, 0)
             /\ io' = {"settings", "stat"}
             /\ launched' = <<>>
             /\ shown' = <<>>
             /\ UNCHANGED <<settings, dirs, files, clock, acked>>

\* the goroutine: filepath.Walk reaches its next path
ScanVisit(i) ==
    /\ scans[i].pc = "walk"
    /\ LET t == walkStep(FS(dirs, files), scans[i])
       IN  IF t.pc = "failed"
           THEN /\ scans' = [scans EXCEPT ![i] = IdleTask]
                /\ last' = Returned("scan_task", "error", "walk", <<>>, <<>>, 0)
           ELSE /\ scans' = [scans EXCEPT ![i] = t]
                /\ last' = Returned("scan_task", "ok", "visit", <<>>, <<>>, 0)
    /\ io' = {"stat", "read"}
    /\ launched' = <<>>
    /\ shown' = <<>>
    /\ UNCHANGED <<settings, dirs, files, clock, acked>>

\* the goroutine: marshal and write projects.json
ScanWrite(i, faults) ==
    /\ scans[i].pc = "write"
    /\ LET t  == scans[i]
           wr == WriteFile(FS(dirs, files), JoinPath(t.root, ProjectsJSON), scanOutput(t),
                           "sidecar" \in faults)
       IN  IF MarshalFails(t.projects)
           THEN /\ last' = Returned("scan_task", "error", "marshal", <<>>, <<>>, 0)
                /\ UNCHANGED <<dirs, files>>
           ELSE IF wr.err
           THEN /\ last' = Returned("scan_task", "error", "write", <<>>, <<>>, 0)
                /\ UNCHANGED <<dirs, files>>
           ELSE /\ last' = Returned("scan_task", "ok", "complete", <<>>, <<>>, 0)
                /\ dirs' = wr.fs.dirs
                /\ files' = wr.fs.files
    /\ scans' = [scans EXCEPT ![i] = IdleTask]
    /\ io' = IF MarshalFails(scans[i].projects) THEN {} ELSE {"write"}
    /\ launched' = <<>>
    /\ shown' = <<>>
    /\ UNCHANGED <<settings, clock, acked>>

\* Call with operation "list_projects"
ListProjects ==
    LET r == listProjects(FS(dirs, files), settings)
    IN  /\ last' = Returned("list_projects", r.out, r.why, <<>>, <<>>, 0)
        /\ io' = r.io
        /\ launched' = <<>>
        /\ shown' = r.recent
        /\ dirs' = r.fs.dirs
        /\ files' = r.fs.files
        /\ UNCHANGED <<settings, clock, scans, acked>>

\* Call with operation "filter_project"
FilterProject(nameFilter, exactBPM, minBPM, maxBPM) ==
    LET r == filterProject(FS(dirs, files), settings, nameFilter, exactBPM, minBPM, maxBPM)
    IN  /\ last' = Returned("filter_project", r.out, r.why, nameFilter, <<>>, exactBPM)
        /\ io' = r.io
        /\ launched' = <<>>
        /\ shown' = r.recent
        /\ dirs' = r.fs.dirs
        /\ files' = r.fs.files
        /\ UNCHANGED <<settings, clock, scans, acked>>

\* the host hands the plugin its configuration
InitializeWithConfig(projectDir, templateDir, defaultTemplate) ==
    /\ settings' = initializeWithConfig(projectDir, templateDir, defaultTemplate)
    /\ last' = Returned("initialize", "ok", "", <<>>, <<>>, 0)
    /\ io' = {}
    /\ launched' = <<>>
    /\ shown' = <<>>
    /\ UNCHANGED <<dirs, files, clock, scans, acked>>

\* no settings in memory: loadSettings goes to the settings file
LoadSettings(stored) ==
    /\ settings' = loadSettingsFromFile(stored)
    /\ last' = Returned("load_settings", "ok", IF stored = <<>> THEN "defaults" ELSE "file",
                        <<>>, <<>>, 0)
    /\ io' = {"read"}
    /\ launched' = <<>>
    /\ shown' = <<>>
    /\ UNCHANGED <<dirs, files, clock, scans, acked>>

\* operation "set_template_dir"
SetTemplateDir(path) ==
    LET expandedPath == expandTilde(path)
        mk == MkdirAll(FS(dirs, files), expandedPath, expandedPath = <<>>)
    IN  /\ IF mk.err
           THEN /\ last' = Returned("set_template_dir", "error", "mkdir", <<>>, <<>>, 0)
                /\ UNCHANGED <<settings, dirs>>
           ELSE /\ last' = Returned("set_template_dir", "ok", "", <<>>, <<>>, 0)
                /\ settings' = setTemplateDir(settings, expandedPath)
                /\ dirs' = mk.fs.dirs
        /\ io' = {"mkdir"}
        /\ launched' = <<>>
        /\ shown' = <<>>
        /\ UNCHANGED <<files, clock, scans, acked>>

\* operation "set_project_dir"
SetProjectDir(path) ==
    /\ settings' = [settings EXCEPT !.ProjectDir = expandTilde(path)]
    /\ last' = Returned("set_project_dir", "ok", "", <<>>, <<>>, 0)
    /\ io' = {}
    /\ launched' = <<>>
    /\ shown' = <<>>
    /\ UNCHANGED <<dirs, files, clock, scans, acked>>

\* operation "complete_setup": the directories are made and UpdateSettings
\* stores the two paths
CompleteSetup(projectDir, templateDir) ==
    LET p   == expandTilde(projectDir)
        t   == expandTilde(templateDir)
        mk1 == MkdirAll(FS(dirs, files), p, p = <<>>)
        mk2 == MkdirAll(mk1.fs, t, t = <<>>)
    IN  /\ IF mk1.err
           THEN /\ last' = Returned("complete_setup", "error", "mkdir project", <<>>, <<>>, 0)
                /\ UNCHANGED <<settings, dirs>>
           ELSE IF mk2.err
           THEN /\ last' = Returned("complete_setup", "error", "mkdir template", <<>>, <<>>, 0)
                /\ dirs' = mk1.fs.dirs
                /\ UNCHANGED settings
           ELSE /\ last' = Returned("complete_setup", "ok", "", <<>>, <<>>, 0)
                /\ settings' = updateSettings(settings, p, t)
                /\ dirs' = mk2.fs.dirs
        /\ io' = {"mkdir"}
        /\ launched' = <<>>
        /\ shown' = <<>>
        /\ UNCHANGED <<files, clock, scans, acked>>

\* Call with operation "open_project"
OpenProject(projectPath, faults) ==
    LET r == openProject(FS(dirs, files), projectPath, faults)
    IN  /\ last' = Returned("open_project", r.out, r.why, <<>>, <<>>, 0)
        /\ io' = r.io
        /\ launched' = r.launched
        /\ shown' = <<>>
        /\ dirs' = r.fs.dirs
        /\ files' = r.fs.files
        /\ UNCHANGED <<settings, clock, scans, acked>>

\* Call with operation "open_in_finder"
OpenInFinder(projectPath, projectName, faults) ==
    LET r == openInFinder(FS(dirs, files), settings, projectPath, projectName, faults)
    IN  /\ last' = Returned("open_in_finder", r.out, r.why, projectName, <<>>, 0)
        /\ io' = r.io
        /\ launched' = r.launched
        /\ shown' = r.listed
        /\ dirs' = r.fs.dirs
        /\ files' = r.fs.files
        /\ UNCHANGED <<settings, clock, scans, acked>>

\* Call with operation "rename_project"
RenameProject(oldName, newName, faults) ==
    LET fs == FS(dirs, files)
        r  == renameProject(fs, settings, oldName, newName, faults)
        before == ReadProjects(fs, JoinPath(settings.ProjectDir, ProjectsJSON)).projects
        after  == ReadProjects(r.fs, JoinPath(settings.ProjectDir, ProjectsJSON)).projects
    IN  /\ dirs' = r.fs.dirs
        /\ files' = r.fs.files
        /\ acked' = IF r.out = "ok"
                    THEN (acked \ {before[r.index].Path}) \cup {after[r.index].Path}
                    ELSE acked
        /\ last' = Returned("rename_project", r.out, r.why, oldName, newName, 0)
        /\ io' = r.io
        /\ launched' = <<>>
        /\ shown' = <<>>
        /\ UNCHANGED <<settings, clock, scans>>

Next ==
    \/ \E name \in Names, bpm \in BPMs, faults \in CreateFaults :
          CreateProject(name, bpm, faults)
    \/ ScanProjects
    \/ \E i \in 1..MaxScans : ScanVisit(i)
    \/ \E i \in 1..MaxScans, faults \in ScanFaults : ScanWrite(i, faults)
    \/ \E oldName \in OldNames, newName \in NewNames, faults \in RenameFaults :
          RenameProject(oldName, newName, faults)

Spec == Init /\ [][Next]_vars

TypeOK ==
    /\ clock \in 0..MaxClock
    /\ \A p \in DOMAIN files : p \notin dirs

(* create_project on its own: any template, any sidecar *)

CreateCalls ==
    ({Nab, NB} \X {0, 140} \X {{}})
      \cup ({Nab} \X {140} \X Faults({"mkdir", "write", "patch", "launch", "sidecar"}))
      \cup {<<(<<>>), 0, {}>>, <<(<<"a", "/">>), 0, {}>>, <<Nab, 29, {}>>, <<Nab, 301, {}>>}

StaleEntry == Project(Nbc, JoinPath(InProject(Nbc), Nbc \o DotRPP), 0, Len(TplNoTempo), Float(0))

CreateSidecars ==
    {<<>>,
     <<TextFile(<<>>, 0)>>,
     <<JSONFile(<<>>)>>,
     <<JSONFile(<<StaleEntry>>)>>}

InitCreate ==
    /\ settings \in SettingsChoices
    /\ \E hasRoot \in BOOLEAN, tpl \in CreateTemplates, hasTpl \in BOOLEAN, sc \in CreateSidecars :
         LET f1 == IF hasTpl THEN (TemplatePath :> TextFile(tpl, 0)) ELSE <<>>
             f2 == IF sc # <<>> THEN Put(f1, SidecarPath, sc[1]) ELSE f1
         IN  /\ hasTpl \/ tpl = TplPlain
             /\ hasRoot \/ sc = <<>>
             /\ settings = Configured \/ (hasRoot /\ hasTpl /\ tpl = TplPlain /\ sc = <<>>)
             /\ dirs = {HomePath, TemplateRoot} \cup (IF hasRoot THEN {ProjectRoot} ELSE {})
             /\ files = f2
    /\ clock = 0
    /\ scans = [i \in 1..MaxScans |-> IdleTask]
    /\ acked = {}
    /\ last = Returned("init", "ok", "", <<>>, <<>>, 0)
    /\ io = {}
    /\ launched = <<>>
    /\ shown = <<>>

NextCreate ==
    \E c \in CreateCalls :
        \E name \in {c[1]}, bpm \in {c[2]}, faults \in {c[3]} :
            CreateProject(name, bpm, faults)

SpecCreate == InitCreate /\ [][NextCreate]_vars

(* what the claims speak about *)

Now == FS(dirs, files)

\* the entries of the sidecar; none when it is missing or unreadable
Entries(fs) == ReadProjects(fs, SidecarPath).projects

CreatedFile == JoinPath(InProject(last.name), last.name \o DotRPP)

CreateReturnedOK == last.op = "create_project" /\ last.out = "ok"

RECURSIVE Offset(_, _)
Offset(lines, k) == IF k = 1 THEN 0 ELSE Offset(lines, k - 1) + Len(lines[k - 1]) + 1

\* where the tempo value sits in a project file: the second field of the
\* first line that starts, after its indent, with "TEMPO "
TempoSpan(content) ==
    LET lines      == Split(content, "\n")
        isTempo(k) == HasPrefix(TrimLeft(lines[k], {" ", "\t"}), TempoPrefix)
    IN  IF ~\E k \in 1..Len(lines) : isTempo(k)
        THEN [line |-> FALSE, field |-> FALSE, from |-> 0, to |-> 0]
        ELSE LET k     == CHOOSE i \in 1..Len(lines) : isTempo(i) /\ \A j \in 1..(i - 1) : ~isTempo(j)
                 line  == lines[k]
                 start == Len(line) - Len(TrimLeft(line, {" ", "\t"})) + Len(TempoPrefix) - 1
                 rest  == SubSeq(line, start + 1, Len(line))
                 val   == TrimLeft(rest, Space)
                 n     == IF \E i \in 1..Len(val) : val[i] \in Space
                          THEN (CHOOSE i \in 1..Len(val) :
                                   val[i] \in Space /\ \A j \in 1..(i - 1) : val[j] \notin Space) - 1
                          ELSE Len(val)
                 from  == Offset(lines, k) + start + (Len(rest) - Len(val)) + 1
             IN  [line |-> TRUE, field |-> n > 0, from |-> from, to |-> from + n - 1]

TempoField(content) == SubSeq(content, TempoSpan(content).from, TempoSpan(content).to)

\* C1: after a successful create_project(name, bpm) there is a file at
\* project_dir/name/name.RPP; it is the template when bpm is 0, and when bpm > 0
\* and the template has a tempo field, the file's tempo field is bpm.
C1_CreateInstantiatesTemplate ==
    CreateReturnedOK =>
        /\ IsFile(Now, CreatedFile)
        /\ LET tpl == files[TemplatePath].bytes
               got == files[CreatedFile].bytes
           IN  /\ last.bpm = 0 => got = tpl
               /\ (last.bpm > 0 /\ TempoSpan(tpl).field) =>
                      (TempoSpan(got).field /\ TempoField(got) = Itoa(last.bpm))

\* a create_project with a bpm has replaced the tempo of the template
C1_Witness ==
    /\ CreateReturnedOK
    /\ last.bpm > 0
    /\ TempoSpan(files[TemplatePath].bytes).field
    /\ TempoField(files[CreatedFile].bytes) # TempoField(files[TemplatePath].bytes)

\* C2: after create_project with bpm > 0, the new file is the template with
\* the bytes of the tempo value replaced by bpm and every other byte kept.
C2_PatchKeepsOtherBytes ==
    (CreateReturnedOK /\ last.bpm > 0) =>
        LET tpl  == files[TemplatePath].bytes
            got  == files[CreatedFile].bytes
            span == TempoSpan(tpl)
        IN  IF span.field
            THEN got = SubSeq(tpl, 1, span.from - 1) \o Itoa(last.bpm)
                           \o SubSeq(tpl, span.to + 1, Len(tpl))
            ELSE got = tpl

\* C10: a successful create_project whose append meets no I/O failure leaves
\* the sidecar holding the entries it held (none when it was missing or an
\* empty file), in order, followed by the entry of the new project.
C10_AppendKeepsEntries ==
    [][\A c \in CreateCalls :
          (CreateProject(c[1], c[2], {}) /\ last'.out = "ok") =>
              LET after == ReadProjects(FS(dirs', files'), SidecarPath)
                  n     == Len(Entries(Now))
              IN  /\ ~after.readErr /\ ~after.parseErr
                  /\ Len(after.projects) = n + 1
                  /\ SubSeq(after.projects, 1, n) = Entries(Now)
                  /\ after.projects[n + 1].Name = c[1]
                  /\ after.projects[n + 1].Path = JoinPath(InProject(c[1]), c[1] \o DotRPP)]_vars

(* rename_project on its own, on registries a scan has written *)

Nz == <<"z">>

RenameCalls ==
    ({Nb, Nab, Nz} \X {Nc, Nb}
        \X (Faults({"rename1", "rename2", "rollback", "sidecar"}) \cup {{"rename2", "rollback"}}))
      \cup {<<(<<>>), Nc, {}>>, <<Nb, (<<>>), {}>>, <<Nb, (<<"c", "/">>), {}>>}

\* the layout once a scan has run to its end
Scanned(layout) ==
    FS(layout.dirs,
       Put(layout.files, SidecarPath, JSONFile(Walk(layout, StartTask(ProjectRoot)).projects)))

\* a project file deleted after the scan
Without(fs, p) == FS(fs.dirs, [q \in DOMAIN fs.files \ {p} |-> fs.files[q]])

RenameStarts ==
    {Scanned(LayoutShared), Scanned(LayoutTwo), Scanned(LayoutFlat),
     Without(Scanned(LayoutTwo), JoinPath(InProject(Nab), Nab \o DotRPP)),
     Without(Scanned(LayoutTwo), JoinPath(InProject(Nb), Nb \o DotRPP)),
     LayoutEmpty}

InitRename ==
    /\ settings = Configured
    /\ \E fs \in RenameStarts : dirs = fs.dirs /\ files = fs.files
    /\ clock = 0
    /\ scans = [i \in 1..MaxScans |-> IdleTask]
    /\ acked = {}
    /\ last = Returned("init", "ok", "", <<>>, <<>>, 0)
    /\ io = {}
    /\ launched = <<>>
    /\ shown = <<>>

NextRename ==
    \E c \in RenameCalls :
        \E oldName \in {c[1]}, newName \in {c[2]}, faults \in {c[3]} :
            RenameProject(oldName, newName, faults)

SpecRename == InitRename /\ [][NextRename]_vars

Then == FS(dirs', files')

RenameRan == last'.op = "rename_project"

\* the rule that selects an entry: its name equals old_name or contains it,
\* case-insensitively
Matches(entry, oldName) ==
    \/ EqualFold(entry.Name, oldName)
    \/ Contains(ToLower(entry.Name), ToLower(oldName))

\* the folder a rename of oldName to newName would create is there already
RenameTargetTaken(fs, oldName, newName) ==
    LET ps == Entries(fs)
        i  == findProject(ps, oldName)
    IN  /\ oldName # <<>> /\ newName # <<>>
        /\ i # 0
        /\ IsDir(fs, JoinPath(Dir(Dir(ps[i].Path)), newName))

\* the parsed content of every JSON file, wherever the file lies
JSONBodies(f) == {f[p].projects : p \in {q \in DOMAIN f : f[q].kind = "json"}}

\* C5: rename_project(old, new) when a folder named new exists next to the
\* matched project's folder returns an error and leaves every directory and
\* file, the sidecar included, as it was.
C5_TargetExistsChangesNothing ==
    [][(RenameRan /\ RenameTargetTaken(Now, last'.name, last'.new)) =>
           (last'.out = "error" /\ dirs' = dirs /\ files' = files)]_vars

\* rename_project has refused a new name whose folder exists
C5_Witness ==
    /\ last.op = "rename_project"
    /\ last.out = "error"
    /\ last.why = "already exists"
    /\ RenameTargetTaken(Now, last.name, last.new)

\* C6: when some entry's name equals old_name case-insensitively, a successful
\* rename_project changes only an entry whose name equals old_name.
C6_ExactMatchPreferred ==
    [][(RenameRan /\ last'.out = "ok"
          /\ \E i \in 1..Len(Entries(Now)) : EqualFold(Entries(Now)[i].Name, last'.name)) =>
           \A k \in 1..Len(Entries(Now)) :
               Entries(Then)[k] # Entries(Now)[k] => EqualFold(Entries(Now)[k].Name, last'.name)]_vars

\* several entries contain oldName and none equals it
Ambiguous(ps, oldName) ==
    /\ oldName # <<>>
    /\ Cardinality({i \in 1..Len(ps) : Contains(ToLower(ps[i].Name), ToLower(oldName))}) > 1
    /\ ~\E i \in 1..Len(ps) : EqualFold(ps[i].Name, oldName)

\* C7: rename_project with an old_name that several entries contain and none
\* equals returns an error and renames nothing.
C7_AmbiguousNameIsAnError ==
    [][\A c \in RenameCalls :
          (RenameProject(c[1], c[2], {}) /\ Ambiguous(Entries(Now), c[1])) =>
              (last'.out = "error" /\ dirs' = dirs /\ files' = files)]_vars

\* C8: a successful rename_project has moved the folder of an entry that
\* matches old_name to <parent>/new_name and the project file to
\* <parent>/new_name/new_name.RPP; in the sidecar that entry has the new name
\* and path and the file's modification time and size, and every other entry,
\* the number of entries and their order are as before.
C8_RenameMovesAndUpdates ==
    [][(RenameRan /\ last'.out = "ok") =>
           LET before == Entries(Now)
               after  == Entries(Then)
           IN  \E i \in 1..Len(before) :
                   LET folder == Dir(before[i].Path)
                       target == JoinPath(Dir(folder), last'.new)
                       file   == JoinPath(target, last'.new \o DotRPP)
                   IN  /\ Matches(before[i], last'.name)
                       /\ ~Exists(Then, folder)
                       /\ IsDir(Then, target)
                       /\ IsFile(Then, file)
                       /\ files'[file] = files[before[i].Path]
                       /\ Len(after) = Len(before)
                       /\ \A k \in 1..Len(before) : k # i => after[k] = before[k]
                       /\ after[i] = [before[i] EXCEPT !.Name = last'.new,
                                                       !.Path = file,
                                                       !.LastModified = files'[file].mtime,
                                                       !.Size = Len(files'[file].bytes)]]_vars

\* rename_project has renamed one entry of a registry that holds another
C8_Witness ==
    /\ last.op = "rename_project"
    /\ last.out = "ok"
    /\ Len(Entries(Now)) >= 2
    /\ \E i \in 1..Len(Entries(Now)) :
           /\ Entries(Now)[i].Name = last.new
           /\ IsFile(Now, Entries(Now)[i].Path)

\* C9 as stated: when the rename of the project file fails, an error is
\* returned and every directory and file, the sidecar included, is as before.
C9_FailedFileRenameRestoresFolder ==
    [][(RenameRan /\ last'.why = "rename file") =>
           (last'.out = "error" /\ dirs' = dirs /\ files' = files)]_vars

\* C9 as amended: when the rename of the project file fails, an error is
\* returned and no sidecar is rewritten; the folder rename is undone whenever
\* the rollback rename itself succeeds.
C9_FailedFileRenameAttemptsRollback ==
    [][\A c \in RenameCalls :
          (RenameProject(c[1], c[2], c[3]) /\ last'.why = "rename file") =>
              /\ last'.out = "error"
              /\ JSONBodies(files') = JSONBodies(files)
              /\ "rollback" \notin c[3] => (dirs' = dirs /\ files' = files)]_vars

\* the rename of the project file has failed and the folder is back
C9_Witness ==
    /\ last.op = "rename_project"
    /\ last.why = "rename file"
    /\ LET i == findProject(Entries(Now), last.name)
       IN  /\ i # 0
           /\ IsDir(Now, Dir(Entries(Now)[i].Path))
           /\ ~Exists(Now, JoinPath(Dir(Dir(Entries(Now)[i].Path)), last.new))

(* create_project and rename_project while scans run *)

NoScanRuns == \A i \in 1..MaxScans : scans[i].pc = "idle"

HasEntry(fs, p) == \E k \in 1..Len(Entries(fs)) : Entries(fs)[k].Path = p

\* C3: the write of a background scan replaces the sidecar by the list its
\* walk collected, whatever create_project or rename_project wrote to the
\* sidecar since the walk passed; a project that create_project acknowledged
\* can so be missing from the final sidecar.
C3_ScanWriteOverwrites ==
    [][(last'.op = "scan_task" /\ last'.why = "complete") =>
           \E i \in 1..MaxScans :
               /\ scans[i].pc = "write"
               /\ scans'[i].pc = "idle"
               /\ Entries(Then) = scans[i].projects]_vars

\* the lost update: every scan has finished, the last one wrote the sidecar,
\* and a project file that create_project or rename_project recorded exists
\* without an entry
C3_Witness ==
    /\ last.op = "scan_task"
    /\ last.why = "complete"
    /\ NoScanRuns
    /\ \E p \in acked : IsFile(Now, p) /\ ~HasEntry(Now, p)

(* scan on its own: nobody else writes *)

ScanSidecars ==
    {<<>>,
     <<TextFile(<<>>, 0)>>,
     <<JSONFile(<<StaleEntry>>)>>}

ScanLayouts == {LayoutEmpty, LayoutShared, LayoutTwo, LayoutFlat, LayoutDotted}

InitScan ==
    /\ settings \in {Configured, initializeWithConfig(<<>>, TemplateRoot, <<>>)}
    /\ \E layout \in ScanLayouts \cup {LayoutNone}, sc \in ScanSidecars :
         /\ (layout = LayoutNone \/ settings # Configured) => sc = <<>>
         /\ settings # Configured => layout = LayoutEmpty
         /\ dirs = layout.dirs
         /\ files = IF sc # <<>> THEN Put(layout.files, SidecarPath, sc[1]) ELSE layout.files
    /\ clock = 0
    /\ scans = [i \in 1..MaxScans |-> IdleTask]
    /\ acked = {}
    /\ last = Returned("init", "ok", "", <<>>, <<>>, 0)
    /\ io = {}
    /\ launched = <<>>
    /\ shown = <<>>

ScanStep == \E i \in 1..MaxScans : ScanVisit(i)

ScanFinish == \E i \in 1..MaxScans, faults \in ScanFaults : ScanWrite(i, faults)

NextScan == ScanProjects \/ ScanStep \/ ScanFinish

\* a goroutine that can run is scheduled
SpecScan == InitScan /\ [][NextScan]_vars /\ WF_vars(ScanStep) /\ WF_vars(ScanFinish)

\* the regular files under project_dir whose extension is .rpp in any case
RppFiles(fs) ==
    {p \in DOMAIN fs.files : IsPrefix(ProjectRoot, p) /\ ToLower(Ext(p)) = DotRppLower}

\* C4: when a background scan that nobody interfered with has walked,
\* marshalled and written, the sidecar holds exactly one entry per file under
\* project_dir whose extension is .rpp in any case, and nothing else.
C4_ScanReplacesSidecar ==
    (last.op = "scan_task" /\ last.why = "complete") =>
        LET ps == Entries(Now)
        IN  /\ {ps[k].Path : k \in 1..Len(ps)} = RppFiles(Now)
            /\ \A j, k \in 1..Len(ps) : ps[j].Path = ps[k].Path => j = k

(* arguments that validation refuses, next to arguments it lets through *)

\* one name for each forbidden character
BadNames == {<<"a", c>> : c \in Forbidden}

ValidateBPMs == {0 - 5, 0, 29, 301}

ValidateCalls ==
    {<<"create_project", n, (<<>>), b>> : n \in {Nab, <<>>}, b \in ValidateBPMs}
      \cup {<<"create_project", n, (<<>>), b>> : n \in BadNames, b \in {0, 140}}
      \cup {<<"rename_project", o, n, 0>> : o \in {Nb, <<>>}, n \in {Nc, <<>>} \cup BadNames}

InitValidate ==
    /\ settings \in {Configured, initializeWithConfig(<<>>, <<>>, <<>>)}
    /\ \E fs \in {Scanned(LayoutTwo), LayoutEmpty} :
         /\ dirs = fs.dirs
         /\ files = Put(fs.files, TemplatePath, TextFile(TplPlain, 0))
    /\ clock = 0
    /\ scans = [i \in 1..MaxScans |-> IdleTask]
    /\ acked = {}
    /\ last = Returned("init", "ok", "", <<>>, <<>>, 0)
    /\ io = {}
    /\ launched = <<>>
    /\ shown = <<>>

NextValidate ==
    \/ \E c \in {v \in ValidateCalls : v[1] = "create_project"} :
          \E name \in {c[2]}, bpm \in {c[4]} : CreateProject(name, bpm, {})
    \/ \E c \in {v \in ValidateCalls : v[1] = "rename_project"} :
          \E oldName \in {c[2]}, newName \in {c[3]} : RenameProject(oldName, newName, {})

SpecValidate == InitValidate /\ [][NextValidate]_vars

\* the arguments the claim calls invalid
HasForbidden(name) == \E i \in 1..Len(name) : name[i] \in {"<", ">", ":", "\"", "/", "\\", "|", "?", "*"}

InvalidCreate(name, bpm) ==
    name = <<>> \/ HasForbidden(name) \/ (bpm # 0 /\ (bpm < MinBPM \/ bpm > MaxBPM))

InvalidRename(oldName, newName) == oldName = <<>> \/ newName = <<>> \/ HasForbidden(newName)

\* C11: create_project and rename_project with invalid arguments return an
\* error without loading settings, without any file or directory I/O and
\* without spawning a process.
C11_ValidationPrecedesIO ==
    [][((last'.op = "create_project" /\ InvalidCreate(last'.name, last'.bpm))
          \/ (last'.op = "rename_project" /\ InvalidRename(last'.name, last'.new))) =>
           /\ last'.out = "error"
           /\ io' = {}
           /\ launched' = <<>>
           /\ dirs' = dirs /\ files' = files /\ settings' = settings]_vars

\* create_project has refused a negative bpm
C11_Witness ==
    /\ last.op = "create_project"
    /\ last.name # <<>> /\ ~HasForbidden(last.name)
    /\ last.bpm < 0
    /\ last.out = "error"
    /\ io = {}

(* the queries on their own: registries of every size, nothing else runs *)

EntryFor(name, mtime, bpm) ==
    Project(name, JoinPath(InProject(name), name \o DotRPP), mtime, Len(TplPlain), bpm)

\* four entries: 120.5, 120, 99.9 and 0 bpm, oldest first
RegSmall ==
    <<EntryFor(Nab, 1, Float(1205)), EntryFor(Nbc, 2, Float(1200)),
      EntryFor(NB, 3, Float(999)), EntryFor(Nz, 4, Float(0))>>

\* MaxEntries entries "b1", "b2", ... with distinct times in no order and
\* 101, 102, ... bpm
RegBig ==
    [k \in 1..MaxEntries |->
        EntryFor(Nb \o Itoa(k), IF k % 2 = 1 THEN k ELSE MaxEntries + k, Float((100 + k) * 10))]

\* MaxEntries entries of which many share a time
RegTies ==
    [k \in 1..MaxEntries |-> EntryFor(Nb \o Itoa(k), k % 3, Float((100 + (k % 4)) * 10))]

Registries == {RegSmall, RegBig, RegTies, <<EntryFor(Nz, 0, Float(0))>>}

QuerySidecars ==
    {<<>>, <<TextFile(<<>>, 0)>>, <<JSONFile(<<>>)>>} \cup {<<JSONFile(r)>> : r \in Registries}

\* name, bpm, min_bpm, max_bpm
FilterCalls ==
    ({<<>>, Nb, NB, Nz}
        \X {<<0, 0, 0>>, <<120, 0, 0>>, <<0, 120, 0>>, <<0, 0, 120>>, <<0, 103, 140>>,
            <<0, 140, 103>>, <<0 - 1, 0 - 1, 0 - 1>>})
      \cup {<<Nc, <<0, 0, 0>>>>, <<Nb \o <<"1">>, <<101, 101, 101>>>>}

InitQuery ==
    /\ settings \in {Configured, initializeWithConfig(<<>>, TemplateRoot, <<>>)}
    /\ \E sc \in QuerySidecars :
         /\ settings # Configured => sc = <<>>
         /\ dirs = BaseDirs
         /\ files = IF sc # <<>> THEN (SidecarPath :> sc[1]) ELSE <<>>
    /\ clock = 0
    /\ scans = [i \in 1..MaxScans |-> IdleTask]
    /\ acked = {}
    /\ last = Returned("init", "ok", "", <<>>, <<>>, 0)
    /\ io = {}
    /\ launched = <<>>
    /\ shown = <<>>

NextQuery ==
    \/ ListProjects
    \/ \E c \in FilterCalls :
          \E nameFilter \in {c[1]}, exactBPM \in {c[2][1]},
             minBPM \in {c[2][2]}, maxBPM \in {c[2][3]} :
              FilterProject(nameFilter, exactBPM, minBPM, maxBPM)

SpecQuery == InitQuery /\ [][NextQuery]_vars

QueryReturnedTable ==
    /\ last.op \in {"list_projects", "filter_project"}
    /\ last.out = "ok"
    /\ last.why = "table"

\* how many entries of seq have time t
CountTime(seq, t) == Cardinality({i \in 1..Len(seq) : seq[i].LastModified = t})

\* the filter predicate as the contract words it
Qualifies(proj, name, bpm, lo, hi) ==
    /\ name = <<>> \/ Contains(ToLower(proj.Name), ToLower(name))
    /\ bpm <= 0 \/ (bpm * 10 <= proj.BPM.tenths /\ proj.BPM.tenths < bpm * 10 + 10)
    /\ lo <= 0 \/ proj.BPM.tenths >= lo * 10
    /\ hi <= 0 \/ proj.BPM.tenths <= hi * 10

Qualifying(name, bpm, lo, hi) ==
    SelectSeq(Entries(Now), LAMBDA proj : Qualifies(proj, name, bpm, lo, hi))

\* result is at most 30 entries of qualifying, latest first, and no entry
\* that was left out is newer than one that was returned
LatestThirty(result, qualifying) ==
    /\ Len(result) <= 30
    /\ Len(qualifying) > 30 => Len(result) = 30
    /\ \A i \in 1..Len(result) : \E k \in 1..Len(qualifying) : qualifying[k] = result[i]
    /\ \A i \in 1..(Len(result) - 1) : result[i].LastModified >= result[i + 1].LastModified
    /\ \A t \in {qualifying[k].LastModified : k \in 1..Len(qualifying)} :
           (\E i \in 1..Len(result) : result[i].LastModified < t) =>
               CountTime(result, t) = CountTime(qualifying, t)

\* C12: list_projects and filter_project return at most 30 entries, in
\* non-increasing order of last_modified, and when more than 30 entries
\* qualify the returned ones are 30 with the latest last_modified.
C12_AtMostThirtyLatestFirst ==
    [][/\ (ListProjects /\ last'.why = "table") =>
              LatestThirty(shown', Entries(Now))
       /\ \A c \in FilterCalls :
              (FilterProject(c[1], c[2][1], c[2][2], c[2][3]) /\ last'.why = "table") =>
                  LatestThirty(shown', Qualifying(c[1], c[2][1], c[2][2], c[2][3]))]_vars

\* list_projects has cut a registry of more than 30 entries down to 30
C12_Witness ==
    /\ QueryReturnedTable
    /\ last.op = "list_projects"
    /\ Len(Entries(Now)) > 30
    /\ Len(shown) = 30

Listed == listProjects(Now, settings).recent

Among(entry, seq) == \E k \in 1..Len(seq) : seq[k] = entry

NoFilter(name, bpm, lo, hi) == name = <<>> /\ bpm = 0 /\ lo = 0 /\ hi = 0

\* C13 as stated: every entry filter_project returns is an entry that
\* list_projects returns on the same registry and satisfies the filter; with
\* no filter the two return the same set.
C13_FilterWithinList ==
    [][\A c \in FilterCalls :
          (FilterProject(c[1], c[2][1], c[2][2], c[2][3]) /\ last'.why = "table") =>
              /\ \A i \in 1..Len(shown') :
                     /\ Among(shown'[i], Listed)
                     /\ Qualifies(shown'[i], c[1], c[2][1], c[2][2], c[2][3])
              /\ NoFilter(c[1], c[2][1], c[2][2], c[2][3]) =>
                     {shown'[i] : i \in 1..Len(shown')} = {Listed[i] : i \in 1..Len(Listed)}]_vars

\* C13 as amended: every entry filter_project returns is an entry of the
\* registry that satisfies the filter; it is also an entry that list_projects
\* returns when the registry holds at most 30 entries; with no filter the two
\* return the same entries.
C13_FilterWithinRegistry ==
    [][\A c \in FilterCalls :
          (FilterProject(c[1], c[2][1], c[2][2], c[2][3]) /\ last'.why = "table") =>
              /\ \A i \in 1..Len(shown') :
                     /\ Among(shown'[i], Entries(Now))
                     /\ Qualifies(shown'[i], c[1], c[2][1], c[2][2], c[2][3])
                     /\ Len(Entries(Now)) <= 30 => Among(shown'[i], Listed)
              /\ NoFilter(c[1], c[2][1], c[2][2], c[2][3]) => shown' = Listed]_vars

\* filter_project has returned an entry that list_projects cuts off
C13_Witness ==
    /\ QueryReturnedTable
    /\ last.op = "filter_project"
    /\ Len(Entries(Now)) > 30
    /\ \E i \in 1..Len(shown) : Among(shown[i], Entries(Now)) /\ ~Among(shown[i], Listed)

\* C14: filter_project keeps an entry exactly when the name filter is empty
\* or a case-insensitive substring of its name, bpm <= 0 or equal to its bpm
\* truncated to an integer, min_bpm <= 0 or its bpm >= min_bpm, and
\* max_bpm <= 0 or its bpm <= max_bpm; of the kept entries the cap of 30
\* returns all when they are at most 30.
C14_FilterPredicate ==
    [][\A c \in FilterCalls :
          (FilterProject(c[1], c[2][1], c[2][2], c[2][3]) /\ last'.out = "ok"
             /\ Len(Entries(Now)) > 0) =>
              \A k \in 1..Len(Entries(Now)) :
                  /\ Among(Entries(Now)[k], shown')
                        => Qualifies(Entries(Now)[k], c[1], c[2][1], c[2][2], c[2][3])
                  /\ (Qualifies(Entries(Now)[k], c[1], c[2][1], c[2][2], c[2][3])
                        /\ Len(Qualifying(c[1], c[2][1], c[2][2], c[2][3])) <= 30)
                        => Among(Entries(Now)[k], shown')]_vars

\* filter_project with an exact bpm has kept an entry whose bpm has a
\* fraction and dropped another entry
C14_Witness ==
    /\ QueryReturnedTable
    /\ last.op = "filter_project"
    /\ last.bpm > 0
    /\ Len(shown) < Len(Entries(Now))
    /\ \E i \in 1..Len(shown) : shown[i].BPM.tenths % 10 # 0

\* C19: without a sidecar file, list_projects and filter_project return the
\* message that tells the caller to run scan, with a nil error and no table.
C19_MissingSidecarIsGuidance ==
    (last.op \in {"list_projects", "filter_project"}
       /\ settings.ProjectDir # <<>>
       /\ ~Exists(Now, JoinPath(settings.ProjectDir, ProjectsJSON))) =>
        (last.out = "ok" /\ last.why = "run scan first" /\ shown = <<>>)

\* filter_project has run without a sidecar
C19_Witness ==
    /\ last.op = "filter_project"
    /\ last.why = "run scan first"
    /\ ~Exists(Now, SidecarPath)

\* C20: on a non-empty registry, filter_project whose filters match no entry
\* returns the no-match message with a nil error and no table.
C20_NoMatchMessage ==
    [][\A c \in FilterCalls :
          (FilterProject(c[1], c[2][1], c[2][2], c[2][3])
             /\ Len(Entries(Now)) > 0
             /\ Qualifying(c[1], c[2][1], c[2][2], c[2][3]) = <<>>) =>
              (last'.out = "ok" /\ last'.why = "no match" /\ shown' = <<>>)]_vars

\* filter_project has matched nothing in a registry of several entries
C20_Witness ==
    /\ last.op = "filter_project"
    /\ last.why = "no match"
    /\ Len(Entries(Now)) > 1

(* the settings on their own *)

SettingsDirs == {ProjectRoot, TemplateRoot, <<Tilde, TemplatesName>>, <<>>}

\* what a settings file can hold: nothing, a consistent triple, a triple
\* without default_template, an empty object
StoredSettings ==
    {<<>>,
     <<Settings(ProjectRoot, TemplateRoot, JoinPath(TemplateRoot, DefaultRPP))>>,
     <<Settings(ProjectRoot, TemplateRoot, <<>>)>>,
     <<Settings(<<>>, <<>>, <<>>)>>}

InitSettings ==
    /\ settings \in {loadSettingsFromFile(stored) : stored \in StoredSettings}
    /\ dirs = {HomePath}
    /\ files = <<>>
    /\ clock = 0
    /\ scans = [i \in 1..MaxScans |-> IdleTask]
    /\ acked = {}
    /\ last = Returned("init", "ok", "", <<>>, <<>>, 0)
    /\ io = {}
    /\ launched = <<>>
    /\ shown = <<>>

NextSettings ==
    \/ \E p \in SettingsDirs, t \in SettingsDirs,
          d \in {<<>>, JoinPath(ProjectRoot, Nab \o DotRPP)} :
          InitializeWithConfig(p, t, d)
    \/ \E stored \in StoredSettings : LoadSettings(stored)
    \/ \E path \in SettingsDirs : SetTemplateDir(path)
    \/ \E path \in SettingsDirs : SetProjectDir(path)
    \/ \E p \in SettingsDirs, t \in SettingsDirs : CompleteSetup(p, t)

SpecSettings == InitSettings /\ [][NextSettings]_vars

\* C15: whenever template_dir is non-empty, default_template is template_dir
\* joined with "default.RPP".
C15_DefaultTemplateDerived ==
    settings.TemplateDir # <<>> =>
        settings.DefaultTemplate = JoinPath(settings.TemplateDir, DefaultRPP)

(* scan, create_project and rename_project next to files of other programs *)

InitNames ==
    /\ settings = Configured
    /\ dirs = LayoutForeign.dirs
    /\ files = Put(LayoutForeign.files, TemplatePath, TextFile(TplPlain, 0))
    /\ clock = 0
    /\ scans = [i \in 1..MaxScans |-> IdleTask]
    /\ acked = {}
    /\ last = Returned("init", "ok", "", <<>>, <<>>, 0)
    /\ io = {}
    /\ launched = <<>>
    /\ shown = <<>>

NextNames ==
    \/ CreateProject(Nab, 0, {})
    \/ ScanProjects
    \/ \E i \in 1..MaxScans : ScanVisit(i)
    \/ \E i \in 1..MaxScans : ScanWrite(i, {})
    \/ \E newName \in {Nc, <<"c", "?">>} : RenameProject(Nb, newName, {})

SpecNames == InitNames /\ [][NextNames]_vars

\* C16 as stated: no entry of the sidecar has a name with a path separator or
\* one of the characters <>:"/\|?* .
C16_EntryNamesAreClean ==
    \A k \in 1..Len(Entries(Now)) : ~HasForbidden(Entries(Now)[k].Name)

\* C16 as amended: no entry name holds a path separator, and an entry whose
\* name holds a forbidden character was recorded by scan from a file of that
\* name, never written by create_project or rename_project.
C16_OperationsWriteCleanNames ==
    \A k \in 1..Len(Entries(Now)) :
        LET e == Entries(Now)[k]
        IN  /\ \A i \in 1..Len(e.Name) : e.Name[i] # "/"
            /\ HasForbidden(e.Name) =>
                   /\ e.Path \notin acked
                   /\ e.Name = TrimSuffix(Base(e.Path), Ext(e.Path))
                   /\ IsFile(Now, e.Path)

\* a scan has recorded a file with a forbidden character in its name, next to
\* an entry that create_project or rename_project wrote
C16_Witness ==
    /\ \E k \in 1..Len(Entries(Now)) : HasForbidden(Entries(Now)[k].Name)
    /\ \E k \in 1..Len(Entries(Now)) : Entries(Now)[k].Path \in acked

(* open_in_finder on its own *)

\* path, name, faults
FinderCalls ==
    ({<<>>} \X {<<"a">>, Nab, Nb, NB, Nbc, Nc, Nz, <<>>} \X {{}, {"open"}})
      \cup ({JoinPath(InProject(Nab), Nab \o DotRPP), JoinPath(InProject(Nz), Nz \o DotRPP),
             SidecarPath, InProject(Nab)} \X {<<>>, Nz} \X {{}})

FinderStarts ==
    {Scanned(LayoutShared), Scanned(LayoutTwo), Scanned(LayoutFlat), LayoutTwo,
     Scanned(LayoutDotted),
     Without(Scanned(LayoutTwo), JoinPath(InProject(Nb), Nb \o DotRPP)),
     FS(BaseDirs, (SidecarPath :> TextFile(<<>>, 0)))}

InitFinder ==
    /\ settings \in {Configured, initializeWithConfig(<<>>, TemplateRoot, <<>>)}
    /\ \E fs \in FinderStarts :
         /\ settings # Configured => fs = Scanned(LayoutTwo)
         /\ dirs = fs.dirs
         /\ files = fs.files
    /\ clock = 0
    /\ scans = [i \in 1..MaxScans |-> IdleTask]
    /\ acked = {}
    /\ last = Returned("init", "ok", "", <<>>, <<>>, 0)
    /\ io = {}
    /\ launched = <<>>
    /\ shown = <<>>

NextFinder ==
    \E c \in FinderCalls :
        \E projectPath \in {c[1]}, projectName \in {c[2]}, faults \in {c[3]} :
              OpenInFinder(projectPath, projectName, faults)

SpecFinder == InitFinder /\ [][NextFinder]_vars

\* the registry entries whose name contains name, case-insensitively
NameMatches(name) ==
    SelectSeq(Entries(Now), LAMBDA proj : Contains(ToLower(proj.Name), ToLower(name)))

\* C17: open_in_finder with a name and no path spawns the file browser only
\* when exactly one entry's name contains the name, and then on that entry's
\* path; with several matches it returns an error that lists them, with no
\* match an error, and in both cases spawns nothing.
C17_RevealNeedsOneMatch ==
    [][\A c \in FinderCalls :
          (OpenInFinder(c[1], c[2], c[3]) /\ c[1] = <<>> /\ c[2] # <<>>
             /\ settings.ProjectDir # <<>>) =>
              LET m == NameMatches(c[2])
              IN  /\ launched' # <<>> =>
                        (Len(m) = 1 /\ launched' = <<Command("open", <<"-R", m[1].Path>>)>>)
                  /\ Len(m) > 1 =>
                        (last'.out = "error" /\ last'.why = "multiple"
                           /\ shown' = m /\ launched' = <<>>)
                  /\ Len(m) = 0 => (last'.out = "error" /\ launched' = <<>>)]_vars

\* open_in_finder has refused a name that two entries contain
C17_Witness ==
    /\ last.op = "open_in_finder"
    /\ last.out = "error"
    /\ last.why = "multiple"
    /\ Len(NameMatches(last.name)) > 1
    /\ launched = <<>>

(* every operation, with project_dir or template_dir left empty *)

Unconfigured ==
    {initializeWithConfig(<<>>, TemplateRoot, <<>>),
     initializeWithConfig(ProjectRoot, <<>>, <<>>),
     initializeWithConfig(<<>>, <<>>, <<>>)}

\* name, bpm
GuidanceCreates == {Nab, Nc, <<>>} \X {0, 120}

\* name filter, <<exact, min, max>>
GuidanceFilters == {<<<<>>, <<0, 0, 0>>>>, <<Nb, <<120, 0, 0>>>>}

\* old name, new name
GuidanceRenames == {<<Nb, Nc>>, <<Nab, Nb>>, <<Nb, <<>>>>}

InitGuidance ==
    /\ settings \in Unconfigured
    /\ \E fs \in {LayoutEmpty, LayoutTwo, Scanned(LayoutTwo)} :
         /\ dirs = fs.dirs
         /\ files = Put(fs.files, TemplatePath, TextFile(TplPlain, 0))
    /\ clock = 0
    /\ scans = [i \in 1..MaxScans |-> IdleTask]
    /\ acked = {}
    /\ last = Returned("init", "ok", "", <<>>, <<>>, 0)
    /\ io = {}
    /\ launched = <<>>
    /\ shown = <<>>

NextGuidance ==
    \/ \E c \in GuidanceCreates :
          \E name \in {c[1]}, bpm \in {c[2]} : CreateProject(name, bpm, {})
    \/ ScanProjects
    \/ \E i \in 1..MaxScans : ScanVisit(i)
    \/ \E i \in 1..MaxScans : ScanWrite(i, {})
    \/ ListProjects
    \/ \E c \in GuidanceFilters :
          \E nameFilter \in {c[1]}, exactBPM \in {c[2][1]},
             minBPM \in {c[2][2]}, maxBPM \in {c[2][3]} :
              FilterProject(nameFilter, exactBPM, minBPM, maxBPM)
    \/ \E c \in GuidanceRenames :
          \E oldName \in {c[1]}, newName \in {c[2]} : RenameProject(oldName, newName, {})

SpecGuidance == InitGuidance /\ [][NextGuidance]_vars

\* the step returned the guidance string with a nil error and created,
\* modified and launched nothing
Guided ==
    /\ last'.out = "guidance"
    /\ launched' = <<>>
    /\ dirs' = dirs
    /\ files' = files
    /\ scans' = scans
    /\ settings' = settings

\* C18: create_project with valid arguments and an empty project_dir or
\* template_dir, and scan, list_projects, filter_project and rename_project
\* with an empty project_dir, return the guidance string with a nil error and
\* create, modify and launch nothing.
C18_MissingConfigurationIsGuidance ==
    [][/\ \A c \in GuidanceCreates :
            (CreateProject(c[1], c[2], {}) /\ ~InvalidCreate(c[1], c[2])
               /\ (settings.ProjectDir = <<>> \/ settings.TemplateDir = <<>>)) => Guided
       /\ (ScanProjects /\ settings.ProjectDir = <<>>) => Guided
       /\ (ListProjects /\ settings.ProjectDir = <<>>) => Guided
       /\ \A c \in GuidanceFilters :
            (FilterProject(c[1], c[2][1], c[2][2], c[2][3]) /\ settings.ProjectDir = <<>>)
               => Guided
       /\ \A c \in GuidanceRenames :
            (RenameProject(c[1], c[2], {}) /\ ~InvalidRename(c[1], c[2])
               /\ settings.ProjectDir = <<>>) => Guided]_vars

\* create_project was answered with guidance although project_dir is set
\* (template_dir is empty)
C18_Witness ==
    /\ last.op = "create_project"
    /\ last.out = "guidance"
    /\ ~InvalidCreate(last.name, last.bpm)
    /\ settings.ProjectDir # <<>>
    /\ settings.TemplateDir = <<>>
    /\ launched = <<>>

(* the launcher: create_project and open_project, the launcher failing or not *)

\* name, bpm, faults
LaunchCreates ==
    ({Nab} \X {140} \X {{}, {"launch"}, {"write", "launch"}}) \cup {<<Nc, 0, {"launch"}>>}

\* path, faults
LaunchOpens ==
    {<<>>, JoinPath(InProject(Nab), Nab \o DotRPP), JoinPath(InProject(Nz), Nz \o DotRPP),
     JoinPath(ProjectRoot, Nbc \o DotRppLower), InProject(Nbrpp), InProject(Nab),
     SidecarPath, TemplatePath}
      \X {{}, {"launch"}}

InitLaunch ==
    /\ settings = Configured
    /\ \E fs \in {LayoutEmpty, Scanned(LayoutTwo), Scanned(LayoutFlat), LayoutDotted} :
         /\ dirs = fs.dirs
         /\ files = Put(fs.files, TemplatePath, TextFile(TplPlain, 0))
    /\ clock = 0
    /\ scans = [i \in 1..MaxScans |-> IdleTask]
    /\ acked = {}
    /\ last = Returned("init", "ok", "", <<>>, <<>>, 0)
    /\ io = {}
    /\ launched = <<>>
    /\ shown = <<>>

NextLaunch ==
    \/ \E c \in LaunchCreates :
          \E name \in {c[1]}, bpm \in {c[2]}, faults \in {c[3]} :
              CreateProject(name, bpm, faults)
    \/ \E c \in LaunchOpens :
          \E projectPath \in {c[1]}, faults \in {c[2]} : OpenProject(projectPath, faults)

SpecLaunch == InitLaunch /\ [][NextLaunch]_vars

\* the sidecar file, when there is one
SidecarOf(f) == IF SidecarPath \in DOMAIN f THEN <<f[SidecarPath]>> ELSE <<>>

\* C21: when the launcher that create_project or open_project spawned exits
\* with a nonzero status, the call returns an error; after create_project the
\* project file it wrote is on disk and the sidecar has no new entry.
C21_LauncherFailureIsAnError ==
    [][/\ \A c \in LaunchCreates :
            (CreateProject(c[1], c[2], c[3]) /\ "launch" \in c[3] /\ launched' # <<>>) =>
                /\ last'.out = "error"
                /\ IsFile(Then, JoinPath(InProject(c[1]), c[1] \o DotRPP))
                /\ SidecarOf(files') = SidecarOf(files)
       /\ \A c \in LaunchOpens :
            (OpenProject(c[1], c[2]) /\ "launch" \in c[2] /\ launched' # <<>>) =>
                last'.out = "error"]_vars

\* create_project has written a project file that has no entry, the launcher
\* having failed
C21_Witness ==
    /\ last.op = "create_project"
    /\ last.out = "error"
    /\ last.why = "launch"
    /\ launched # <<>>
    /\ IsFile(Now, CreatedFile)
    /\ ~HasEntry(Now, CreatedFile)

Indent(line) == SubSeq(line, 1, Len(line) - Len(TrimLeft(line, {" ", "\t"})))

StartsWithTempo(line) == HasPrefix(TrimLeft(line, {" ", "\t"}), TempoPrefix)

\* the index of the first TEMPO line, 0 when there is none
FirstTempoLine(lines) ==
    IF \E k \in 1..Len(lines) : StartsWithTempo(lines[k])
    THEN CHOOSE k \in 1..Len(lines) :
             StartsWithTempo(lines[k]) /\ \A j \in 1..(k - 1) : ~StartsWithTempo(lines[j])
    ELSE 0

\* C23: create_project with bpm > 0 rewrites only the first line that starts,
\* after its leading spaces and tabs, with "TEMPO ": its leading whitespace
\* is kept, its second field is bpm in decimal, its other fields keep their
\* values and order, and every other line, later TEMPO lines included, is
\* as in the template.
C23_PatchTouchesFirstTempoLine ==
    (CreateReturnedOK /\ last.bpm > 0) =>
        LET tpl == Split(files[TemplatePath].bytes, "\n")
            got == Split(files[CreatedFile].bytes, "\n")
            k   == FirstTempoLine(tpl)
        IN  /\ Len(got) = Len(tpl)
            /\ \A j \in 1..Len(tpl) : j # k => got[j] = tpl[j]
            /\ k # 0 =>
                 LET was == Fields(tpl[k])
                 IN  IF Len(was) >= 2
                     THEN /\ Indent(got[k]) = Indent(tpl[k])
                          /\ Fields(got[k]) = [was EXCEPT ![2] = Itoa(last.bpm)]
                     ELSE got[k] = tpl[k]

\* a template with two TEMPO lines was patched: the first has the new tempo,
\* the second the old one
C23_Witness ==
    /\ CreateReturnedOK
    /\ last.bpm = 140
    /\ LET tpl == Split(files[TemplatePath].bytes, "\n")
           got == Split(files[CreatedFile].bytes, "\n")
       IN  /\ Len(tpl) >= 2
           /\ StartsWithTempo(tpl[1]) /\ StartsWithTempo(tpl[2])
           /\ Fields(tpl[1])[2] # Itoa(140)
           /\ Fields(got[1])[2] = Itoa(140)
           /\ got[2] = tpl[2]

(* scan over project files whose tempo is hard to read *)

\* n copies of a one-character text
Repeat(text, n) == [i \in 1..(n * Len(text)) |-> text[((i - 1) % Len(text)) + 1]]

TempoLine(value) == TempoPrefix \o value \o <<" ", "4", " ", "4", "\n">>

\* "TEMPO NaN 4 4\n"
FileNaN == TempoLine(<<"N", "a", "N">>)
\* "TEMPO fast 4 4\n"
FileWord == TempoLine(<<"f", "a", "s", "t">>)
\* the TEMPO line is line 100, and line 101
FileLine100 == Repeat(<<">", "\n">>, MaxLines - 1) \o TempoLine(<<"9", "0">>)
FileLine101 == Repeat(<<">", "\n">>, MaxLines) \o TempoLine(<<"9", "0">>)

\* P/ab/ab.RPP and P/b/b.RPP with the given bytes
LayoutOf(first, second) ==
    FS(BaseDirs \cup {InProject(Nab), InProject(Nb)},
       (JoinPath(InProject(Nab), Nab \o DotRPP) :> TextFile(first, 0))
         @@ (JoinPath(InProject(Nb), Nb \o DotRPP) :> TextFile(second, 0)))

ExtractLayouts ==
    {LayoutOf(FileNaN, TplPlain), LayoutOf(FileWord, TplPlain), LayoutOf(FileLine100, FileLine101),
     LayoutOf(TplTwo, TplNoTempo), LayoutOf(TplCRLF, FileWord), LayoutDotted}

InitExtract ==
    /\ settings = Configured
    /\ \E layout \in ExtractLayouts, sc \in {<<>>, <<JSONFile(<<StaleEntry>>)>>} :
         /\ dirs = layout.dirs
         /\ files = IF sc # <<>> THEN Put(layout.files, SidecarPath, sc[1]) ELSE layout.files
    /\ clock = 0
    /\ scans = [i \in 1..MaxScans |-> IdleTask]
    /\ acked = {}
    /\ last = Returned("init", "ok", "", <<>>, <<>>, 0)
    /\ io = {}
    /\ launched = <<>>
    /\ shown = <<>>

NextExtract ==
    \/ ScanProjects
    \/ \E i \in 1..MaxScans : ScanVisit(i)
    \/ \E i \in 1..MaxScans : ScanWrite(i, {})

SpecExtract == InitExtract /\ [][NextExtract]_vars

\* a decimal numeral: digits with at most one point
IsNumeral(field) ==
    /\ \E i \in 1..Len(field) : IsDigit(field[i])
    /\ \A i \in 1..Len(field) : IsDigit(field[i]) \/ field[i] = "."
    /\ Cardinality({i \in 1..Len(field) : field[i] = "."}) <= 1

\* the tempo a project file states: the second field of the first line, among
\* the first 100, that starts with "TEMPO " and has a second field, in tenths;
\* 0 when there is no such line or the field is no number
StatedTempo(content) ==
    LET all   == ScanLines(content)
        lines == SubSeq(all, 1, IF Len(all) < 100 THEN Len(all) ELSE 100)
        hit(k) == StartsWithTempo(lines[k]) /\ Len(Fields(lines[k])) >= 2
    IN  IF ~\E k \in 1..Len(lines) : hit(k) THEN Float(0)
        ELSE LET k     == CHOOSE i \in 1..Len(lines) : hit(i) /\ \A j \in 1..(i - 1) : ~hit(j)
                 field == Fields(lines[k])[2]
             IN  IF IsNumeral(field) THEN ParseFloat(field).val ELSE Float(0)

\* the paths under project_dir with the extension .rpp in any case
RppPaths(fs) ==
    {p \in fs.dirs \cup DOMAIN fs.files : IsPrefix(ProjectRoot, p) /\ ToLower(Ext(p)) = DotRppLower}

\* the last scan task has run to its end
ScanEnded == last.op = "scan_task" /\ last.why \in {"complete", "marshal"}

\* C24: a scan that ran to its end has recorded every .rpp path it found, a
\* file with the tempo the file states and with bpm 0 when the file states
\* none, when the tempo field is no number or when the path cannot be read
\* as a file.
C24_UnreadableTempoIsZero ==
    ScanEnded =>
        \A p \in RppPaths(Now) :
            \E k \in 1..Len(Entries(Now)) :
                /\ Entries(Now)[k].Path = p
                /\ Entries(Now)[k].BPM = IF IsFile(Now, p) THEN StatedTempo(files[p].bytes)
                                         ELSE Float(0)

(* scans that fail: a path renamed away under the walk, a tempo JSON cannot *)
(* encode, a sidecar that cannot be written                                 *)

AbortStarts ==
    {Scanned(LayoutTwo),
     FS(LayoutOf(FileNaN, TplPlain).dirs,
        Put(LayoutOf(FileNaN, TplPlain).files, SidecarPath, JSONFile(<<StaleEntry>>)))}

InitAbort ==
    /\ settings = Configured
    /\ \E fs \in AbortStarts : dirs = fs.dirs /\ files = fs.files
    /\ clock = 0
    /\ scans = [i \in 1..MaxScans |-> IdleTask]
    /\ acked = {}
    /\ last = Returned("init", "ok", "", <<>>, <<>>, 0)
    /\ io = {}
    /\ launched = <<>>
    /\ shown = <<>>

NextAbort ==
    \/ ScanProjects
    \/ \E i \in 1..MaxScans : ScanVisit(i)
    \/ \E i \in 1..MaxScans, faults \in ScanFaults : ScanWrite(i, faults)
    \/ \E newName \in {Nc, Nb} : RenameProject(Nb, newName, {})

SpecAbort == InitAbort /\ [][NextAbort]_vars

\* a list with a tempo that JSON has no encoding for
HasNaN(projects) == \E k \in 1..Len(projects) : projects[k].BPM.nan

\* C25: a scan task whose walk meets a path that is gone, whose list cannot
\* be marshalled or whose write fails stops, and the failure is an event of
\* the task, not the reply of a call; no call to scan returns an error; when
\* the walk or the marshal failed, no file or directory has changed.
C25_ScanFailureIsSilent ==
    [][/\ \A i \in 1..MaxScans :
            LET t         == scans[i]
                stepped   == scans'[i] # t
                walkFails == t.pc = "walk" /\ stepped /\ Head(t.todo) \notin dirs \cup DOMAIN files
                marshalFails == t.pc = "write" /\ stepped /\ HasNaN(t.projects)
                writeFails == ScanWrite(i, {"sidecar"}) /\ ~HasNaN(t.projects)
            IN  /\ (walkFails \/ marshalFails \/ writeFails) =>
                      /\ scans'[i] = IdleTask
                      /\ last'.op = "scan_task"
                      /\ last'.out = "error"
                /\ (walkFails \/ marshalFails) => (dirs' = dirs /\ files' = files)
       /\ last'.op = "scan" => last'.out # "error"]_vars

\* the marshal of a scan has failed and the sidecar is the one from before
C25_Witness ==
    /\ last.op = "scan_task"
    /\ last.why = "marshal"
    /\ NoScanRuns
    /\ Entries(Now) = <<StaleEntry>>

\* the walk of a scan has failed
WalkHasFailed == last.op = "scan_task" /\ last.why = "walk"

(* rename_project: what an error leaves behind, and the other entries *)

\* C26: whenever rename_project returns an error, every directory and every
\* file, the sidecar included, is as it was before the call.
C26_RenameErrorChangesNothing ==
    [][(RenameRan /\ last'.out = "error") => (dirs' = dirs /\ files' = files)]_vars

\* C27: after a successful rename_project, every entry that the call left as
\* it was and whose path was a file before the call still has a path that is
\* a file.
C27_RenameKeepsOtherEntriesValid ==
    [][(RenameRan /\ last'.out = "ok") =>
           \A k \in 1..Len(Entries(Now)) :
               (Entries(Then)[k] = Entries(Now)[k] /\ IsFile(Now, Entries(Now)[k].Path)) =>
                   IsFile(Then, Entries(Then)[k].Path)]_vars

(* create_project on templates whose TEMPO line lies deep in the file *)

\* name, bpm
AgreeCalls == {<<Nab, 140>>, <<Nab, 0>>, <<Nc, 90>>, <<NB, 30>>, <<Nb, 300>>}

InitAgree ==
    /\ settings = Configured
    /\ \E tpl \in {TplPlain, TplCRLF, FileLine100, FileLine101}, sc \in {<<>>, <<JSONFile(<<StaleEntry>>)>>} :
         /\ dirs = BaseDirs
         /\ files = IF sc # <<>>
                    THEN Put((TemplatePath :> TextFile(tpl, 0)), SidecarPath, sc[1])
                    ELSE (TemplatePath :> TextFile(tpl, 0))
    /\ clock = 0
    /\ scans = [i \in 1..MaxScans |-> IdleTask]
    /\ acked = {}
    /\ last = Returned("init", "ok", "", <<>>, <<>>, 0)
    /\ io = {}
    /\ launched = <<>>
    /\ shown = <<>>

NextAgree ==
    \E c \in AgreeCalls :
        \E name \in {c[1]}, bpm \in {c[2]} : CreateProject(name, bpm, {})

SpecAgree == InitAgree /\ [][NextAgree]_vars

\* C28: after a successful create_project(name, bpm) with bpm > 0 on a
\* template with a TEMPO line that has a tempo field, the entry appended to
\* the sidecar has the requested bpm.
C28_EntryHasRequestedBPM ==
    (/\ CreateReturnedOK
     /\ last.why = "created"
     /\ last.bpm > 0
     /\ LET tpl == Split(files[TemplatePath].bytes, "\n")
        IN  FirstTempoLine(tpl) # 0 /\ Len(Fields(tpl[FirstTempoLine(tpl)])) >= 2) =>
        LET ps == Entries(Now)
        IN  /\ ps # <<>>
            /\ ps[Len(ps)].Path = CreatedFile
            /\ ps[Len(ps)].BPM = Float(last.bpm * 10)

(* the registry as a set of paths *)

\* C29: after any sequence of scan, create_project and rename_project, no
\* two entries of the sidecar have the same path.
C29_NoDuplicatePaths ==
    \A j, k \in 1..Len(Entries(Now)) :
        Entries(Now)[j].Path = Entries(Now)[k].Path => j = k

(* the operations that only read *)

\* name filter, <<exact, min, max>>
ReadOnlyFilters == {<<(<<>>), <<0, 0, 0>>>>, <<Nb, <<0, 0, 0>>>>, <<(<<>>), <<0, 103, 140>>>>, <<Nz, <<0, 0, 0>>>>}

InitReadOnly == InitQuery \/ InitFinder

NextReadOnly ==
    \/ ListProjects
    \/ \E c \in ReadOnlyFilters :
          \E nameFilter \in {c[1]}, exactBPM \in {c[2][1]},
             minBPM \in {c[2][2]}, maxBPM \in {c[2][3]} :
              FilterProject(nameFilter, exactBPM, minBPM, maxBPM)
    \/ \E c \in LaunchOpens :
          \E projectPath \in {c[1]}, faults \in {c[2]} : OpenProject(projectPath, faults)
    \/ \E c \in FinderCalls :
          \E projectPath \in {c[1]}, projectName \in {c[2]}, faults \in {c[3]} :
              OpenInFinder(projectPath, projectName, faults)

SpecReadOnly == InitReadOnly /\ [][NextReadOnly]_vars

\* C30: list_projects, filter_project, open_project and open_in_finder,
\* whatever their arguments and outcome, leave every directory and file, the
\* sidecar included, and the settings as they were.
C30_QueriesChangeNothing ==
    [][last'.op \in {"list_projects", "filter_project", "open_project", "open_in_finder"} =>
           (dirs' = dirs /\ files' = files /\ settings' = settings)]_vars

\* list_projects has shown the 30 latest entries of a sidecar that still
\* holds more, in the order it had
C30_Witness ==
    /\ last.op = "list_projects"
    /\ last.why = "table"
    /\ Len(shown) = Limit
    /\ Len(Entries(Now)) > Limit
    /\ shown # SubSeq(Entries(Now), 1, Limit)

====
